---- MODULE Spec2Model ----
(***************************************************************************)
(* A model of the evkrnl kernel core: the physical page-frame allocator    *)
(* (kernel/src/mem/phys.rs), the virtual-frame handle and the slab heap    *)
(* (kernel/src/mem/virt.rs), the initramfs reader and its packer           *)
(* (kernel/src/initramfs.rs, build.rs), the time state                     *)
(* (kernel/src/time.rs) and the PIC interrupt path                         *)
(* (kernel/src/interrupts.rs).                                             *)
(*                                                                         *)
(* Arrays and slices keep the source's 0-based indices: they are functions *)
(* over 0..n-1.  An Option is a sequence of length 0 (None) or 1 (Some).   *)
(***************************************************************************)
EXTENDS Integers, Sequences, FiniteSets, Bags, TLC

VARIABLES
    regions,      \* the bootloader's memory-region table, as PageFrameAllocator::new permutes it
    allocators,   \* PageFrameAllocator.allocators: one single-region allocator per retained region
    phase,        \* "boot" before PageFrameAllocator::new, "run" after it
    live,         \* bag of the frames handed out by allocate_frame and not given back
    vframes,      \* bag of the frames owned by live VirtFrame handles
    lastOp,       \* the last allocator operation: [op, arg, ret]
    panic,        \* the kernel panic that halted the machine, or NoPanic
    slabs,        \* KAlloc.slabs: per size class the chain of slab-element-slabs from Slab.first
    heapLive,     \* the allocations GlobalAlloc::alloc returned and dealloc has not taken back
    heapUsed,     \* the layout sizes GlobalAlloc::alloc has been called with so far
    files,        \* the (name, content) list the packer collected from the folder
    disk,         \* the packer's output, None before the build script has run
    INITRAMFS,    \* INITRAMFS.raw: the ramdisk slice, None before initramfs::init
    iter,         \* an InitRamFileIterator: [file_count, current_file], None before iter()
    yielded,      \* the items that iterator has yielded so far
    ended,        \* TRUE once that iterator's next() has returned None
    opened,       \* the last InitRamFs::open_file call: [name, ret], None before it
    BOOT_NS,      \* time.rs: AtomicU64
    PS_TICK_STEP, \* time.rs: AtomicU64
    BOOT_PS_PART, \* time.rs: AtomicU16
    pic,          \* the interrupt path: [pc, irq, kernel, step, guard]: its position, the
                  \* arguments of Pic::interrupt, the local `step` of tick_step, the IRQ
                  \* of the live PicEnd guard
    eoi,          \* the PIC command ports the current interrupt wrote 0x20 to
    enabled,      \* the CPU accepts interrupts (interrupts::init has run)
    ticks,        \* the number of tick_step calls that have added to BOOT_NS
    HAS_PANICKED,       \* panic.rs: AtomicBool
    HAS_PANICKED_AGAIN, \* panic.rs: AtomicBool
    entries,      \* the activations of kernel_panic, outermost first: [pc, msg]
    printed,      \* what the emergency print path has put out, in order: [by, msg, text],
                  \* by the activation that printed it
    KERNEL_MODULES, \* modules.rs: the compile-selected static modules, in declaration order
    boot,         \* lib::init from modules::init on: [pc, index, count, ret]
    initLog,      \* the static modules whose init() has been invoked, in order
    extra,        \* EXTRA_KERNEL_MODULES: the written entries guard.0[..guard.1]
    lateInit,     \* the modules whose init() the last register call invoked, in order
    poll,         \* a Time::timeout_poll_ns call: [pc, timeout_ns, start, end_time_ns,
                  \* called, sawTrue, ret]
    spans,        \* the last Span operation: [op, lhs, rhs, ret]
    lex,          \* a RawLexer and what next() has returned: [made, source, chars, stopped,
                  \* out, done], chars the number of characters the iterator has consumed
    l4,           \* the active level-4 page table when mem::init runs: entry index -> flags
    locks,        \* the spin mutexes that are locked, by their statics' names
    taken,        \* the mutexes the current (or last) interrupt handler has acquired
    preempted,    \* the mutexes the interrupted code held when that handler was entered
    big,          \* KAlloc.big and the memory under it: [size, used, mapped, frames, phys]
    cpu,          \* the CPU in a system call: its registers, flags, stack and position
    order         \* what lib::init has done so far, in order

physVars == <<regions, allocators, phase, live, vframes, lastOp>>
slabVars == <<slabs, heapLive, heapUsed>>
fsVars == <<files, disk, INITRAMFS, iter, yielded, ended, opened>>
timeVars == <<BOOT_NS, PS_TICK_STEP, BOOT_PS_PART>>
irqVars == <<timeVars, pic, eoi, enabled, ticks>>
haltVars == <<HAS_PANICKED, HAS_PANICKED_AGAIN, entries, printed>>
modVars == <<KERNEL_MODULES, boot, initLog, extra, lateInit>>
pollVars == <<poll>>
lexVars == <<spans, lex>>
pageVars == <<l4>>
lockVars == <<locks, taken, preempted>>
bigVars == <<big>>
sysVars == <<cpu>>
orderVars == <<order>>

-----------------------------------------------------------------------------
(* Options and 0-based arrays *)

None == <<>>
Some(x) == <<x>>
IsSome(o) == o # <<>>
Unwrap(o) == o[1]

Len0(a) == Cardinality(DOMAIN a)

Min(S) == CHOOSE x \in S : \A y \in S : x <= y

\* bitvec first_zero over the sub-slice [from..]: index relative to the whole slice
RECURSIVE FirstZeroFrom(_, _)
FirstZeroFrom(bits, from) ==
    IF from \notin DOMAIN bits THEN None
    ELSE IF ~bits[from] THEN Some(from)
    ELSE FirstZeroFrom(bits, from + 1)

CountZeros(bits) == Cardinality({i \in DOMAIN bits : ~bits[i]})

-----------------------------------------------------------------------------
(* Kernel panic: the panic handler never returns, the machine halts *)

NoPanic == [msg |-> "none", a |-> 0, b |-> 0]
Panic(msg, a, b) == [msg |-> msg, a |-> a, b |-> b]
Running == panic = NoPanic

-----------------------------------------------------------------------------
(* Physical page-frame allocator: kernel/src/mem/phys.rs *)

PAGE == 4096

AlignUp(addr) == ((addr + PAGE - 1) \div PAGE) * PAGE
AlignDown(addr) == (addr \div PAGE) * PAGE

\* size_of::<SingleRegionPageFrameAllocator>(): PhysFrameRange (16), the bit-slice
\* reference (16) and Option<usize> (16)
SRA_HEADER_BYTES == 48

\* the aligned end lies below the aligned start: the u64 subtraction end - start of
\* the partition loop and of SingleRegionPageFrameAllocator::new goes below zero
Underflows(region) == AlignDown(region.end) < AlignUp(region.start)

\* a u64 difference of two addresses that wrapped, in frames: 2^52 less the frames
\* between the addresses.  The model keeps a count above every count it compares with.
WrappedFrames == 2 ^ 30

\* (align_down(end) - align_up(start)) / 4096 in wrapping u64 arithmetic
RegionFrames(region) ==
    IF Underflows(region) THEN WrappedFrames
    ELSE (AlignDown(region.end) - AlignUp(region.start)) \div PAGE

\* the number of whole frames of a region once its bounds are aligned
WholeFrames(region) == IF Underflows(region) THEN 0 ELSE RegionFrames(region)

\* SRANew with the header and bitmap bytes rounded down to whole frames
M_SRANew_FloorOffset(region) ==
    LET start == AlignUp(region.start)
        end == AlignDown(region.end)
        size_in_pages == (end - start) \div PAGE
        slice_size == size_in_pages \div 8
        offset == (SRA_HEADER_BYTES + slice_size) \div PAGE
        bitmap == [i \in 0..(slice_size * 8 - 1) |-> i < offset]
    IN  [start |-> start, end |-> end, bitmap |-> bitmap,
         next_free |-> FirstZeroFrom(bitmap, 0)]

\* SingleRegionPageFrameAllocator::new
SRANew(region) ==
    LET start == AlignUp(region.start)
        end == AlignDown(region.end)
        size_in_pages == (end - start) \div PAGE
        slice_size == size_in_pages \div 8
        offset == (SRA_HEADER_BYTES + slice_size + PAGE - 1) \div PAGE
        bitmap == [i \in 0..(slice_size * 8 - 1) |-> i < offset]
    IN  [start |-> start, end |-> end, bitmap |-> bitmap,
         next_free |-> FirstZeroFrom(bitmap, 0)]

\* SRAAllocate with the hint left on the frame just handed out
M_SRAAllocate_StaleHint(sra) ==
    IF IsSome(sra.next_free)
    THEN LET this == Unwrap(sra.next_free)
         IN  [sra |-> [sra EXCEPT !.bitmap = [sra.bitmap EXCEPT ![this] = TRUE]],
              ret |-> Some(sra.start + PAGE * this)]
    ELSE [sra |-> sra, ret |-> None]

\* SingleRegionPageFrameAllocator::allocate: [sra, ret]
SRAAllocate(sra) ==
    IF IsSome(sra.next_free)
    THEN LET this == Unwrap(sra.next_free)
             bitmap == [sra.bitmap EXCEPT ![this] = TRUE]
         IN  [sra |-> [sra EXCEPT !.bitmap = bitmap,
                                  !.next_free = FirstZeroFrom(bitmap, this)],
              ret |-> Some(sra.start + PAGE * this)]
    ELSE [sra |-> sra, ret |-> None]

\* SRADeallocate that moves the hint to the freed frame whatever the hint was
M_SRADeallocate_AlwaysRewind(sra, frame) ==
    IF sra.start <= frame /\ frame < sra.end
    THEN LET index == (frame - sra.start) \div PAGE
         IN  IF index \notin DOMAIN sra.bitmap
             THEN [sra |-> sra, ret |-> "panic", panic |-> Panic("unwrap on None", index, sra.start)]
             ELSE IF ~sra.bitmap[index]
             THEN [sra |-> sra, ret |-> "panic",
                   panic |-> Panic("Invalid frame index deallocated in SingleRegionPageFrameAllocator", index, sra.start)]
             ELSE [sra |-> [sra EXCEPT !.bitmap = [sra.bitmap EXCEPT ![index] = FALSE],
                                       !.next_free = Some(index)],
                   ret |-> "true", panic |-> NoPanic]
    ELSE [sra |-> sra, ret |-> "false", panic |-> NoPanic]

\* SRADeallocate that rewinds the hint but leaves the frame's bit set
M_SRADeallocate_NoClear(sra, frame) ==
    IF sra.start <= frame /\ frame < sra.end
    THEN LET index == (frame - sra.start) \div PAGE
         IN  IF index \notin DOMAIN sra.bitmap
             THEN [sra |-> sra, ret |-> "panic", panic |-> Panic("unwrap on None", index, sra.start)]
             ELSE IF ~sra.bitmap[index]
             THEN [sra |-> sra, ret |-> "panic",
                   panic |-> Panic("Invalid frame index deallocated in SingleRegionPageFrameAllocator", index, sra.start)]
             ELSE [sra |-> sra, ret |-> "true", panic |-> NoPanic]
    ELSE [sra |-> sra, ret |-> "false", panic |-> NoPanic]

\* SRADeallocate that rewinds the hint before it looks at the frame's bit
M_SRADeallocate_WriteFirst(sra, frame) ==
    IF sra.start <= frame /\ frame < sra.end
    THEN LET index == (frame - sra.start) \div PAGE
             rewound == [sra EXCEPT !.next_free = IF IsSome(sra.next_free) /\ Unwrap(sra.next_free) <= index
                                                  THEN sra.next_free
                                                  ELSE Some(index)]
         IN  IF index \notin DOMAIN sra.bitmap
             THEN [sra |-> rewound, ret |-> "panic", panic |-> Panic("unwrap on None", index, sra.start)]
             ELSE IF ~sra.bitmap[index]
             THEN [sra |-> rewound, ret |-> "panic",
                   panic |-> Panic("Invalid frame index deallocated in SingleRegionPageFrameAllocator", index, sra.start)]
             ELSE [sra |-> [rewound EXCEPT !.bitmap = [sra.bitmap EXCEPT ![index] = FALSE]],
                   ret |-> "true", panic |-> NoPanic]
    ELSE [sra |-> sra, ret |-> "false", panic |-> NoPanic]

\* SingleRegionPageFrameAllocator::deallocate: [sra, ret], ret one of
\* "true", "false", or a panic
SRADeallocate(sra, frame) ==
    IF sra.start <= frame /\ frame < sra.end
    THEN LET index == (frame - sra.start) \div PAGE
         IN  IF index \notin DOMAIN sra.bitmap
             THEN [sra |-> sra, ret |-> "panic", panic |-> Panic("unwrap on None", index, sra.start)]
             ELSE IF ~sra.bitmap[index]
             THEN [sra |-> sra, ret |-> "panic",
                   panic |-> Panic("Invalid frame index deallocated in SingleRegionPageFrameAllocator", index, sra.start)]
             ELSE [sra |-> [sra EXCEPT !.bitmap = [sra.bitmap EXCEPT ![index] = FALSE],
                                       !.next_free = IF IsSome(sra.next_free) /\ Unwrap(sra.next_free) <= index
                                                     THEN sra.next_free
                                                     ELSE Some(index)],
                   ret |-> "true", panic |-> NoPanic]
    ELSE [sra |-> sra, ret |-> "false", panic |-> NoPanic]

\* SingleRegionPageFrameAllocator::size
SRASize(sra) == IF sra.start < sra.end THEN PAGE * ((sra.end - sra.start) \div PAGE) ELSE 0

\* SingleRegionPageFrameAllocator::free
SRAFree(sra) == CountZeros(sra.bitmap) * PAGE

Swap(raw, i, j) == [raw EXCEPT ![i] = raw[j], ![j] = raw[i]]

\* the partition loop of PageFrameAllocator::new: [raw, start]
RECURSIVE Partition(_, _, _)
Partition(raw, start, end) ==
    IF start = end
    THEN [raw |-> raw, start |-> start]
    ELSE IF raw[start].kind = "Usable" /\ RegionFrames(raw[start]) >= 8
         THEN Partition(raw, start + 1, end)
         ELSE Partition(Swap(raw, start, end), start, end - 1)

\* the partition loop evaluates the frame count of a region whose subtraction underflows
RECURSIVE PartitionUnderflows(_, _, _)
PartitionUnderflows(raw, start, end) ==
    IF start = end THEN FALSE
    ELSE IF raw[start].kind = "Usable" /\ Underflows(raw[start]) THEN TRUE
    ELSE IF raw[start].kind = "Usable" /\ RegionFrames(raw[start]) >= 8
         THEN PartitionUnderflows(raw, start + 1, end)
         ELSE PartitionUnderflows(Swap(raw, start, end), start, end - 1)

\* PageFrameAllocator::new: the permuted table and the allocators built over its prefix
PFANew(raw) ==
    LET p == Partition(raw, 0, Len0(raw) - 1)
    IN  [regions |-> p.raw,
         allocators |-> [i \in 1..p.start |-> SRANew(p.raw[i - 1])]]

\* PageFrameAllocator::size: the fold over the allocators
RECURSIVE PFASize(_)
PFASize(allocs) ==
    IF allocs = <<>> THEN 0
    ELSE PFASize(SubSeq(allocs, 1, Len(allocs) - 1)) + SRASize(allocs[Len(allocs)])

\* PageFrameAllocator::free: the fold over the allocators
RECURSIVE PFAFree(_)
PFAFree(allocs) ==
    IF allocs = <<>> THEN 0
    ELSE PFAFree(SubSeq(allocs, 1, Len(allocs) - 1)) + SRAFree(allocs[Len(allocs)])

\* PageFrameAllocator::allocate_frame: find_map over the allocators in order
RECURSIVE PFAAllocateFrom(_, _)
PFAAllocateFrom(allocs, i) ==
    IF i > Len(allocs)
    THEN [allocators |-> allocs, ret |-> None]
    ELSE LET r == SRAAllocate(allocs[i])
         IN  IF IsSome(r.ret)
             THEN [allocators |-> [allocs EXCEPT ![i] = r.sra], ret |-> r.ret]
             ELSE PFAAllocateFrom(allocs, i + 1)

PFAAllocateFrame(allocs) == PFAAllocateFrom(allocs, 1)

\* PageFrameAllocator::deallocate_frame: find_map over the allocators in order,
\* a panic when none owns the frame
RECURSIVE PFADeallocateFrom(_, _, _)
PFADeallocateFrom(allocs, frame, i) ==
    IF i > Len(allocs)
    THEN [allocators |-> allocs,
          panic |-> Panic("Invalid frame deallocated in PageFrameAllocator", frame, 0)]
    ELSE LET r == SRADeallocate(allocs[i], frame)
         IN  CASE r.ret = "panic" -> [allocators |-> [allocs EXCEPT ![i] = r.sra], panic |-> r.panic]
               [] r.ret = "true" -> [allocators |-> [allocs EXCEPT ![i] = r.sra], panic |-> NoPanic]
               [] OTHER -> PFADeallocateFrom([allocs EXCEPT ![i] = r.sra], frame, i + 1)

PFADeallocateFrame(allocs, frame) == PFADeallocateFrom(allocs, frame, 1)

-----------------------------------------------------------------------------
(* The machines the allocator is booted on: memory-region tables *)

MaxRegions == 3
MaxLive == 8
MaxHandles == 2

MiB == 1024 * 1024

Region(first_byte, end_byte, kind) == [start |-> first_byte, end |-> end_byte, kind |-> kind]

RegionA == Region(16 * PAGE + 1, 26 * PAGE - 1, "Usable")    \* 8 whole frames, unaligned bounds
RegionB == Region(32 * PAGE, 43 * PAGE, "Usable")            \* 11 frames
RegionS == Region(48 * PAGE + 1, 56 * PAGE, "Usable")        \* 7 whole frames
RegionR == Region(64 * PAGE, 80 * PAGE, "Reserved")          \* 16 frames, not usable
RegionM == Region(1 * MiB, 128 * MiB, "Usable")              \* the 128 MiB machine's main memory
RegionT == Region(90 * PAGE + 16, 90 * PAGE + 32, "Usable")  \* 16 bytes inside one frame

\* disjoint regions; the bootloader's table lists some of them in any order
RegionPool == { RegionA, RegionB, RegionS, RegionR, RegionM, RegionT }

Table(seq) == [i \in 0..(Len(seq) - 1) |-> seq[i + 1]]

Tables ==
    UNION { { t \in [0..(n - 1) -> RegionPool] : \A i, j \in 0..(n - 1) : i # j => t[i] # t[j] }
            : n \in 1..MaxRegions }

\* the tables of the machines whose allocator is exercised after boot
RunTables ==
    { Table(<<RegionA, RegionB, RegionR>>),
      Table(<<RegionB, RegionS, RegionA>>),
      Table(<<RegionS, RegionB, RegionA, RegionR>>),
      Table(<<RegionR, RegionA>>) }

Qualifies(region) == region.kind = "Usable" /\ WholeFrames(region) >= 8

\* frame addresses outside every retained region's bitmap: below all regions, in the
\* untracked tail of the 11-frame region, in the 7-frame region, in the reserved region
ProbeFrames == { 0, 40 * PAGE, 49 * PAGE, 64 * PAGE }

Tracked(allocs, frame) ==
    \E i \in 1..Len(allocs) :
        /\ allocs[i].start <= frame /\ frame < allocs[i].end
        /\ (frame - allocs[i].start) \div PAGE \in DOMAIN allocs[i].bitmap

BitOf(allocs, frame) ==
    \E i \in 1..Len(allocs) :
        /\ allocs[i].start <= frame /\ frame < allocs[i].end
        /\ (frame - allocs[i].start) \div PAGE \in DOMAIN allocs[i].bitmap
        /\ allocs[i].bitmap[(frame - allocs[i].start) \div PAGE]

Owned == live (+) vframes

Max(S) == CHOOSE x \in S : \A y \in S : x >= y

\* the lowest and the highest free frame of each single-region allocator
FreeFrames(allocs) ==
    UNION { LET a == allocs[i]
                zeros == { k \in DOMAIN a.bitmap : ~a.bitmap[k] }
            IN  IF zeros = {} THEN {}
                ELSE { a.start + PAGE * Min(zeros), a.start + PAGE * Max(zeros) }
            : i \in 1..Len(allocs) }

\* frames nobody holds and that are no allocator's own header frames: freeing one
\* is a double free or the free of a frame that no region's bitmap covers
Foreign ==
    { f \in ProbeFrames \cup FreeFrames(allocators) : ~BagIn(f, Owned) /\ ~BitOf(allocators, f) }

NoOp == [op |-> "none", arg |-> None, ret |-> "none"]

-----------------------------------------------------------------------------
(* Boot: mem::init builds the global physical allocator (PHYS_ALLOCATOR) *)

\* the heap before GAlloc::init
SlabIdle == slabs = <<>> /\ heapLive = {} /\ heapUsed = {}

\* no ramdisk has been built or handed over
FsIdle ==
    /\ files = <<>> /\ disk = None /\ INITRAMFS = None
    /\ iter = None /\ yielded = <<>> /\ ended = FALSE /\ opened = None

\* the statics of time.rs as initialised, interrupts not yet enabled
IrqIdle ==
    /\ BOOT_NS = 0 /\ PS_TICK_STEP = 0 /\ BOOT_PS_PART = 0
    /\ pic = [pc |-> "idle", irq |-> 0, kernel |-> FALSE, step |-> 0, guard |-> None]
    /\ eoi = {} /\ enabled = FALSE /\ ticks = 0

\* no panic handler has been entered
HaltIdle ==
    /\ HAS_PANICKED = FALSE /\ HAS_PANICKED_AGAIN = FALSE
    /\ entries = <<>> /\ printed = <<>>

\* modules::init has not been called, the late registry is empty
ModIdle ==
    /\ KERNEL_MODULES = <<>>
    /\ boot = [pc |-> "before", index |-> 0, count |-> 0, ret |-> None]
    /\ initLog = <<>> /\ extra = <<>> /\ lateInit = <<>>

\* no timeout_poll call is under way
PollIdle ==
    poll = [pc |-> "none", timeout_ns |-> 0, start |-> 0, end_time_ns |-> 0,
            called |-> FALSE, sawTrue |-> FALSE, ret |-> None]

\* no Span operation has run and no lexer exists
LexIdle ==
    /\ spans = [op |-> "none", lhs |-> [start |-> 0, end |-> 0],
               rhs |-> [start |-> 0, end |-> 0], ret |-> None]
    /\ lex = [made |-> FALSE, source |-> <<>>, chars |-> 0, stopped |-> FALSE,
              out |-> <<>>, done |-> FALSE, peeked |-> None, end_error |-> None,
              res |-> <<>>]

\* the page table is not looked at
PageIdle == l4 = <<>>

\* no mutex is locked
LockIdle == locks = {} /\ taken = {} /\ preempted = {}

\* KAlloc::new has not run
BigIdle == big = [size |-> 0, used |-> {}, mapped |-> <<>>, frames |-> 0, phys |-> 0, req |-> <<>>]

\* no system call is under way
SysIdle == cpu = [pc |-> "user"]

\* lib::init has not started
OrderIdle == order = <<>>

BootInit ==
    /\ regions \in Tables
    /\ allocators = <<>>
    /\ phase = "boot"
    /\ live = EmptyBag
    /\ vframes = EmptyBag
    /\ lastOp = NoOp
    /\ panic = NoPanic
    /\ SlabIdle /\ FsIdle /\ IrqIdle
    /\ HaltIdle /\ ModIdle /\ PollIdle /\ LexIdle /\ PageIdle /\ LockIdle
    /\ BigIdle /\ SysIdle /\ OrderIdle

\* mem::init: PHYS_ALLOCATOR = Some(PageFrameAllocator::new(memory_regions)).  A u64
\* subtraction that underflows panics in a build with overflow checks; in a build without
\* them it wraps, the region passes the >= 8 test and SingleRegionPageFrameAllocator::new
\* clears a bitmap of 2^49 bytes from the region's start on, which leaves the mapped
\* physical memory.
New ==
    /\ Running /\ phase = "boot"
    /\ \E overflow_checks \in BOOLEAN :
          IF PartitionUnderflows(regions, 0, Len0(regions) - 1)
          THEN /\ regions' = IF overflow_checks THEN regions
                             ELSE Partition(regions, 0, Len0(regions) - 1).raw
               /\ panic' = IF overflow_checks
                           THEN Panic("attempt to subtract with overflow", 0, 0)
                           ELSE Panic("page fault", 0, 0)
               /\ lastOp' = [op |-> "new", arg |-> None, ret |-> "panic"]
               /\ UNCHANGED <<allocators, phase>>
          ELSE /\ LET n == PFANew(regions)
                  IN  /\ regions' = n.regions
                      /\ allocators' = n.allocators
               /\ phase' = "run"
               /\ lastOp' = [op |-> "new", arg |-> None, ret |-> "ok"]
               /\ UNCHANGED panic
    /\ UNCHANGED <<live, vframes>>
    /\ UNCHANGED <<slabVars, fsVars, irqVars, haltVars, modVars, pollVars, lexVars, pageVars, lockVars, bigVars, sysVars, orderVars>>

BootNext == New

-----------------------------------------------------------------------------
(* Operations on the global physical allocator after boot *)

PhysInit ==
    /\ \E t \in RunTables :
        /\ regions = PFANew(t).regions
        /\ allocators = PFANew(t).allocators
    /\ phase = "run"
    /\ live = EmptyBag
    /\ vframes = EmptyBag
    /\ lastOp = NoOp
    /\ panic = NoPanic
    /\ SlabIdle /\ FsIdle /\ IrqIdle
    /\ HaltIdle /\ ModIdle /\ PollIdle /\ LexIdle /\ PageIdle /\ LockIdle
    /\ BigIdle /\ SysIdle /\ OrderIdle

\* FrameAllocator::allocate_frame
AllocateFrame ==
    /\ Running /\ phase = "run"
    /\ BagCardinality(Owned) < MaxLive
    /\ LET r == PFAAllocateFrame(allocators)
       IN  /\ allocators' = r.allocators
           /\ live' = IF IsSome(r.ret) THEN live (+) SetToBag({Unwrap(r.ret)}) ELSE live
           /\ lastOp' = [op |-> "allocate_frame", arg |-> None,
                         ret |-> IF IsSome(r.ret) THEN "Some" ELSE "None"]
    /\ UNCHANGED <<regions, phase, vframes, panic>>
    /\ UNCHANGED <<slabVars, fsVars, irqVars, haltVars, modVars, pollVars, lexVars, pageVars, lockVars, bigVars, sysVars, orderVars>>

\* FrameDeallocator::deallocate_frame
DeallocateFrame(frame) ==
    /\ Running /\ phase = "run"
    /\ LET r == PFADeallocateFrame(allocators, frame)
       IN  /\ allocators' = r.allocators
           /\ panic' = r.panic
           /\ live' = IF r.panic = NoPanic THEN live (-) SetToBag({frame}) ELSE live
           /\ lastOp' = [op |-> "deallocate_frame", arg |-> Some(frame),
                         ret |-> IF r.panic = NoPanic THEN "ok" ELSE "panic"]
    /\ UNCHANGED <<regions, phase, vframes>>
    /\ UNCHANGED <<slabVars, fsVars, irqVars, haltVars, modVars, pollVars, lexVars, pageVars, lockVars, bigVars, sysVars, orderVars>>

\* VirtFrame::new: palloc!() and the write of the element
VirtFrameNew ==
    /\ Running /\ phase = "run"
    /\ BagCardinality(vframes) < MaxHandles
    /\ BagCardinality(Owned) < MaxLive
    /\ LET r == PFAAllocateFrame(allocators)
       IN  /\ allocators' = r.allocators
           /\ vframes' = IF IsSome(r.ret) THEN vframes (+) SetToBag({Unwrap(r.ret)}) ELSE vframes
           /\ panic' = IF IsSome(r.ret) THEN NoPanic ELSE Panic("Physical OOM!!!", 0, 0)
           /\ lastOp' = [op |-> "VirtFrame::new", arg |-> None,
                         ret |-> IF IsSome(r.ret) THEN "Some" ELSE "panic"]
    /\ UNCHANGED <<regions, phase, live>>
    /\ UNCHANGED <<slabVars, fsVars, irqVars, haltVars, modVars, pollVars, lexVars, pageVars, lockVars, bigVars, sysVars, orderVars>>

\* Drop for VirtFrame: pfree!(self.phys)
VirtFrameDrop(frame) ==
    /\ Running /\ phase = "run"
    /\ LET r == PFADeallocateFrame(allocators, frame)
       IN  /\ allocators' = r.allocators
           /\ panic' = r.panic
           /\ vframes' = vframes (-) SetToBag({frame})
           /\ lastOp' = [op |-> "VirtFrame::drop", arg |-> None,
                         ret |-> IF r.panic = NoPanic THEN "ok" ELSE "panic"]
    /\ UNCHANGED <<regions, phase, live>>
    /\ UNCHANGED <<slabVars, fsVars, irqVars, haltVars, modVars, pollVars, lexVars, pageVars, lockVars, bigVars, sysVars, orderVars>>

PhysNext ==
    \/ AllocateFrame
    \/ \E f \in BagToSet(live) \cup Foreign : DeallocateFrame(f)
    \/ VirtFrameNew
    \/ \E f \in BagToSet(vframes) : VirtFrameDrop(f)

vars == <<physVars, panic, slabVars, fsVars, irqVars, haltVars, modVars, pollVars, lexVars, pageVars, lockVars, bigVars, sysVars, orderVars>>

\* the physical allocator under any sequence of frame operations
Spec == PhysInit /\ [][PhysNext]_vars

\* the construction of the physical allocator from any memory-region table
SpecBoot == BootInit /\ [][BootNext]_vars

-----------------------------------------------------------------------------
(* Claims about the physical allocator *)

\* C1: allocate_frame never returns a frame that it returned earlier and that has not
\* been deallocated since, so no two owners (raw callers, live VirtFrame handles)
\* hold the same frame.
C1_NoFrameReturnedTwice ==
    \A f \in BagToSet(Owned) : CopiesIn(f, Owned) = 1

\* two VirtFrame handles and a raw frame are live, the newest handle just allocated
C1_Witness ==
    /\ BagCardinality(vframes) = 2
    /\ BagCardinality(live) >= 1
    /\ lastOp.op = "VirtFrame::new"
    /\ \E f \in FreeFrames(allocators) : \E g \in BagToSet(Owned) : f < g

\* size() is the sum over the retained regions of region_frames x 4096
RECURSIVE RegionBytes(_, _)
RegionBytes(raw, n) ==
    IF n = 0 THEN 0 ELSE RegionBytes(raw, n - 1) + RegionFrames(raw[n - 1]) * PAGE

SizeIsRegionSum == PFASize(allocators) = RegionBytes(regions, Len(allocators))

FreeStep ==
    /\ (lastOp'.op \in {"allocate_frame", "VirtFrame::new"} /\ lastOp'.ret = "Some")
          => PFAFree(allocators') = PFAFree(allocators) - PAGE
    /\ (lastOp'.op \in {"deallocate_frame", "VirtFrame::drop"} /\ lastOp'.ret = "ok")
          => PFAFree(allocators') = PFAFree(allocators) + PAGE
    /\ (lastOp'.op = "allocate_frame" /\ lastOp'.ret = "None")
          => PFAFree(allocators') = PFAFree(allocators)

\* C2: free() drops by 4096 on an allocate_frame that returns a frame, rises by 4096 on
\* a deallocate_frame that returns, is unchanged by a failed allocate_frame, and size()
\* stays the sum of the retained regions' frames x 4096.
C2_FreeAndSizeAccounting == []SizeIsRegionSum /\ [][FreeStep]_vars

\* a failed allocate_frame on an allocator that has regions, all of them full
C2_Witness ==
    /\ lastOp.op = "allocate_frame" /\ lastOp.ret = "None"
    /\ Len(allocators) >= 1
    /\ PFAFree(allocators) = 0
    /\ PFASize(allocators) > 0

\* C3: PageFrameAllocator::new retains every input region that is Usable and spans at
\* least 8 whole frames after alignment, whatever the number and order of the regions.
C3_EveryQualifyingRegionRetained ==
    phase = "run" =>
        \A i \in DOMAIN regions : Qualifies(regions[i]) => i < Len(allocators)

DeallocStep ==
    lastOp'.op = "deallocate_frame" =>
        LET f == Unwrap(lastOp'.arg)
        IN  /\ lastOp'.ret = "ok" => (Tracked(allocators, f) /\ BitOf(allocators, f))
            /\ ~BitOf(allocators, f) => (panic' # NoPanic /\ lastOp'.ret = "panic")
            /\ panic' # NoPanic => allocators' = allocators

\* C4: deallocate_frame(f) returns normally only if f lies in a retained region and its
\* bit is set; a double free and a frame owned by no region panic, and the panic leaves
\* every bitmap and every hint as it was.
C4_DeallocateChecksBeforeWrite == [][DeallocStep]_vars

\* a double free: the frame's bit is already clear, some frames are still held
C4_Witness ==
    /\ lastOp.op = "deallocate_frame" /\ lastOp.ret = "panic"
    /\ panic.msg = "Invalid frame index deallocated in SingleRegionPageFrameAllocator"
    /\ BagCardinality(live) >= 1

-----------------------------------------------------------------------------
(* Slab heap: kernel/src/mem/virt.rs.  A pointer is modelled by its offset  *)
(* in the physical-memory window (pointer - OFFSET).                        *)

MaxHeapLive == 3

\* BITARRAY_MAX bytes of bitmap per slab element
BITARRAY_MAX == 16

\* the length of SlabElementSlab.elements: a frame less the next link (16 bytes) and
\* two usize, in slab elements of 24 bytes (data frame handle and 16 bytes of bitmap)
ELEMENTS_LEN == (PAGE - 16 - 8 * 2) \div (8 + BITARRAY_MAX)

\* the sub-allocations of one slab element: data.len() / size
Slots(size) == PAGE \div size

\* usize::next_power_of_two
RECURSIVE NextPow2From(_, _)
NextPow2From(n, p) == IF p >= n THEN p ELSE NextPow2From(n, 2 * p)
NextPowerOfTwo(n) == NextPow2From(n, 1)

\* usize::ilog2
RECURSIVE ILog2(_)
ILog2(n) == IF n <= 1 THEN 0 ELSE 1 + ILog2(n \div 2)

SaturatingSub(a, b) == IF a >= b THEN a - b ELSE 0

\* GAlloc::alloc / dealloc: the index into KAlloc.slabs, for pow2 <= 4096
SlabIndex(layout_size) == SaturatingSub(ILog2(NextPowerOfTwo(layout_size)), ILog2(32))

\* KAlloc::new: Slab::new(32) .. Slab::new(4096), each with first = None
SlabSize(index) == 32 * (2 ^ index)
KAllocNew == [i \in 0..7 |-> <<>>]

\* SlabElement::full / SlabElement::empty
ElFull(el, size) == \A i \in 0..(Slots(size) - 1) : i \in el.bitmap
ElEmpty(el, size) == \A i \in 0..(Slots(size) - 1) : i \notin el.bitmap

\* ElAlloc that hands out the first zero slot without setting its bit
M_ElAlloc_NoMark(el, size) ==
    LET zeros == { i \in 0..(Slots(size) - 1) : i \notin el.bitmap }
    IN  IF zeros = {} THEN [el |-> el, ret |-> None]
        ELSE [el |-> el, ret |-> Some(el.data + Min(zeros) * size)]

\* SlabElement::alloc: [el, ret], ret the pointer or None for the panic
ElAlloc(el, size) ==
    LET zeros == { i \in 0..(Slots(size) - 1) : i \notin el.bitmap }
    IN  IF zeros = {} THEN [el |-> el, ret |-> None]
        ELSE [el |-> [el EXCEPT !.bitmap = @ \cup {Min(zeros)}],
              ret |-> Some(el.data + Min(zeros) * size)]

\* SlabElement::try_deallocate: [el, ret], ret one of "true", "false", "panic"
ElTryDeallocate(el, ptr, size) ==
    IF ElEmpty(el, size) THEN [el |-> el, ret |-> "false"]
    ELSE LET offset == ptr - el.data
         IN  IF offset < 0 THEN [el |-> el, ret |-> "false"]
             ELSE IF offset >= PAGE THEN [el |-> el, ret |-> "false"]
             ELSE IF (offset \div size) \notin el.bitmap THEN [el |-> el, ret |-> "panic"]
             ELSE [el |-> [el EXCEPT !.bitmap = @ \ {offset \div size}], ret |-> "true"]

\* VirtFrame::into_inner: the handle is consumed without its Drop, the frame stays allocated
IntoInner(allocs, frame) == allocs

\* the result of a slab operation: the chain, the physical allocator, the frames that
\* got a VirtFrame handle, the frames whose handle went away, the pointer or outcome
SlabResult(chain, allocs, got, gone, ret, p) ==
    [chain |-> chain, allocators |-> allocs, got |-> got, gone |-> gone, ret |-> ret, panic |-> p]

OOM == Panic("Physical OOM!!!", 0, 0)

\* SlabElementSlab::push followed by SlabElement::alloc, in slab-element-slab i
SESPushAlloc(chain, i, size, allocs, got) ==
    LET f == PFAAllocateFrame(allocs)
    IN  IF ~IsSome(f.ret) THEN SlabResult(chain, allocs, got, {}, None, OOM)
        ELSE LET a == ElAlloc([data |-> Unwrap(f.ret), bitmap |-> {}], size)
             IN  SlabResult([chain EXCEPT ![i].elements = Append(@, a.el)], f.allocators,
                            got \cup {Unwrap(f.ret)}, {}, a.ret, NoPanic)

\* SlabElement::alloc on element j of slab-element-slab i
SESAllocIn(chain, i, j, size, allocs) ==
    LET a == ElAlloc(chain[i].elements[j], size)
    IN  SlabResult([chain EXCEPT ![i].elements[j] = a.el], allocs, {}, {}, a.ret,
                   IF IsSome(a.ret) THEN NoPanic
                   ELSE Panic("SlabElement was empty when alloc was called!!!", 0, 0))

NotFull(ses, size) == { j \in 1..Len(ses.elements) : ~ElFull(ses.elements[j], size) }

\* Slab::allocate: the walk along the chain from slab-element-slab i
RECURSIVE SlabAllocateFrom(_, _, _, _)
SlabAllocateFrom(chain, i, size, allocs) ==
    IF i > Len(chain)
    THEN \* none.replace(Default::default()), then inner.push() and el.alloc
         LET f == PFAAllocateFrame(allocs)
         IN  IF ~IsSome(f.ret) THEN SlabResult(chain, allocs, {}, {}, None, OOM)
             ELSE SESPushAlloc(Append(chain, [frame |-> Unwrap(f.ret), elements |-> <<>>]),
                               i, size, f.allocators, {Unwrap(f.ret)})
    ELSE IF Len(chain[i].elements) < ELEMENTS_LEN
    THEN \* not_full_or_push, then el.alloc
         IF NotFull(chain[i], size) # {}
         THEN SESAllocIn(chain, i, Min(NotFull(chain[i], size)), size, allocs)
         ELSE SESPushAlloc(chain, i, size, allocs, {})
    ELSE \* find_not_full, or the next slab-element-slab
         IF NotFull(chain[i], size) # {}
         THEN SESAllocIn(chain, i, Min(NotFull(chain[i], size)), size, allocs)
         ELSE SlabAllocateFrom(chain, i + 1, size, allocs)

SlabAllocate(chain, size, allocs) == SlabAllocateFrom(chain, 1, size, allocs)

\* assume_init_drop of the elements from j on: Drop for VirtFrame frees each data frame
RECURSIVE DropElements(_, _, _)
DropElements(elements, j, allocs) ==
    IF j > Len(elements) THEN [allocators |-> allocs, panic |-> NoPanic]
    ELSE LET r == PFADeallocateFrame(allocs, elements[j].data)
         IN  IF r.panic # NoPanic THEN r
             ELSE DropElements(elements, j + 1, r.allocators)

\* SlabElementSlab::try_deallocate: [ses, allocators, gone, ret, panic]
SESTryDeallocate(ses, ptr, size, allocs) ==
    LET tried == [j \in 1..Len(ses.elements) |-> ElTryDeallocate(ses.elements[j], ptr, size)]
        hits == { j \in 1..Len(ses.elements) : tried[j].ret # "false" }
    IN  IF hits = {}
        THEN [ses |-> ses, allocators |-> allocs, gone |-> {}, ret |-> "false", panic |-> NoPanic]
        ELSE IF tried[Min(hits)].ret = "panic"
        THEN [ses |-> ses, allocators |-> allocs, gone |-> {}, ret |-> "panic",
              panic |-> Panic("Double free in SlabElement try_deallocate!!!", 0, 0)]
        ELSE LET elements == [ses.elements EXCEPT ![Min(hits)] = tried[Min(hits)].el]
             IN  IF \A j \in 1..Len(elements) : ElEmpty(elements[j], size)
                 THEN LET d == DropElements(elements, 1, allocs)
                      IN  [ses |-> [ses EXCEPT !.elements = <<>>], allocators |-> d.allocators,
                           gone |-> { elements[j].data : j \in 1..Len(elements) },
                           ret |-> IF d.panic = NoPanic THEN "true" ELSE "panic", panic |-> d.panic]
                 ELSE [ses |-> [ses EXCEPT !.elements = elements], allocators |-> allocs,
                       gone |-> {}, ret |-> "true", panic |-> NoPanic]

Remove(seq, i) == SubSeq(seq, 1, i - 1) \o SubSeq(seq, i + 1, Len(seq))

\* Slab::try_deallocate: the walk along the chain from slab-element-slab i
RECURSIVE SlabTryDeallocateFrom(_, _, _, _, _)
SlabTryDeallocateFrom(chain, i, ptr, size, allocs) ==
    IF i > Len(chain) THEN SlabResult(chain, allocs, {}, {}, "false", NoPanic)
    ELSE LET r == SESTryDeallocate(chain[i], ptr, size, allocs)
         IN  IF r.ret = "false" THEN SlabTryDeallocateFrom(chain, i + 1, ptr, size, allocs)
             ELSE IF r.ret = "panic"
             THEN SlabResult([chain EXCEPT ![i] = r.ses], r.allocators, {}, r.gone, "panic", r.panic)
             ELSE IF Len(r.ses.elements) = 0
             THEN \* some.take(), into_inner(), *some = old.next
                  SlabResult(Remove(chain, i), IntoInner(r.allocators, chain[i].frame), {},
                             r.gone \cup {chain[i].frame}, "true", NoPanic)
             ELSE SlabResult([chain EXCEPT ![i] = r.ses], r.allocators, {}, r.gone, "true", NoPanic)

SlabTryDeallocate(chain, ptr, size, allocs) == SlabTryDeallocateFrom(chain, 1, ptr, size, allocs)

\* the layouts the kernel asks the heap for: [size]
LayoutSizes == { 64, 2048 }

\* the machine the heap runs on
SlabTable == Table(<<RegionA, RegionR>>)

\* GAlloc::init has run (KAlloc::new) on a freshly built physical allocator
SlabInit ==
    /\ regions = PFANew(SlabTable).regions
    /\ allocators = PFANew(SlabTable).allocators
    /\ phase = "run"
    /\ live = EmptyBag
    /\ vframes = EmptyBag
    /\ lastOp = NoOp
    /\ panic = NoPanic
    /\ slabs = KAllocNew
    /\ heapLive = {}
    /\ heapUsed = {}
    /\ FsIdle /\ IrqIdle
    /\ HaltIdle /\ ModIdle /\ PollIdle /\ LexIdle /\ PageIdle /\ LockIdle
    /\ BigIdle /\ SysIdle /\ OrderIdle

\* GlobalAlloc::alloc for a layout of at most 4096 bytes: the slab is chosen by
\* layout.size() alone, layout.align() is not read
Alloc(layout) ==
    /\ Running
    /\ Cardinality(heapLive) < MaxHeapLive
    /\ NextPowerOfTwo(layout.size) <= 4096
    /\ LET index == SlabIndex(layout.size)
           r == SlabAllocate(slabs[index], SlabSize(index), allocators)
       IN  /\ slabs' = [slabs EXCEPT ![index] = r.chain]
           /\ allocators' = r.allocators
           /\ vframes' = (vframes (+) SetToBag(r.got)) (-) SetToBag(r.gone)
           /\ panic' = r.panic
           /\ heapLive' = IF IsSome(r.ret)
                          THEN heapLive \cup {[size |-> layout.size, align |-> layout.align,
                                               ptr |-> Unwrap(r.ret)]}
                          ELSE heapLive
           /\ lastOp' = [op |-> "alloc", arg |-> Some(layout.size),
                         ret |-> IF IsSome(r.ret) THEN "Some" ELSE "panic"]
    /\ heapUsed' = heapUsed \cup {layout.size}
    /\ UNCHANGED <<regions, phase, live, fsVars, irqVars, haltVars, modVars, pollVars, lexVars, pageVars, lockVars, bigVars, sysVars, orderVars>>

\* Layout::from_size_align(size, 8)
Layout8(size) == [size |-> size, align |-> 8]

GAlloc(layout_size) == Alloc(Layout8(layout_size))

\* GlobalAlloc::dealloc of a pointer that alloc returned for the same layout
GDealloc(a) ==
    /\ Running
    /\ NextPowerOfTwo(a.size) <= 4096
    /\ LET index == SlabIndex(a.size)
           r == SlabTryDeallocate(slabs[index], a.ptr, SlabSize(index), allocators)
       IN  /\ slabs' = [slabs EXCEPT ![index] = r.chain]
           /\ allocators' = r.allocators
           /\ vframes' = (vframes (+) SetToBag(r.got)) (-) SetToBag(r.gone)
           /\ panic' = IF r.ret = "false" THEN Panic("Double free for GAlloc!!!", 0, 0) ELSE r.panic
           /\ heapLive' = IF r.ret = "true" THEN heapLive \ {a} ELSE heapLive
           /\ lastOp' = [op |-> "dealloc", arg |-> Some(a.size),
                         ret |-> IF r.ret = "true" THEN "ok" ELSE "panic"]
    /\ UNCHANGED <<regions, phase, live, heapUsed, fsVars, irqVars, haltVars, modVars, pollVars, lexVars, pageVars, lockVars, bigVars, sysVars, orderVars>>

SlabNext ==
    \/ \E size \in LayoutSizes : GAlloc(size)
    \/ \E a \in heapLive : GDealloc(a)

\* the kernel heap's slabs under any interleaving of alloc and matching dealloc
SpecSlab == SlabInit /\ [][SlabNext]_vars

\* C5: interleaved alloc/dealloc of 64-byte layouts never panics, and once every
\* allocation has been freed the physical allocator's free() is what it was before
\* the first alloc.
C5_SlabRoundTripRestoresFree ==
    heapUsed = {64} =>
        /\ Running
        /\ heapLive = {} => PFAFree(allocators) = PFAFree(PFANew(SlabTable).allocators)

-----------------------------------------------------------------------------
(* Initramfs: the packer of build.rs and the reader of kernel/src/initramfs.rs. *)
(* A byte buffer is a sequence of bytes; byte offset k is element k + 1.        *)

MaxFiles == 2

\* size_of::<usize>()
USIZE == 8

\* usize::to_le_bytes, computed digit by digit
RECURSIVE LeBytes(_, _)
LeBytes(n, k) == IF k = 0 THEN <<>> ELSE <<n % 256>> \o LeBytes(n \div 256, k - 1)
ToLeBytes(n) == LeBytes(n, USIZE)

\* usize::from_le_bytes
RECURSIVE FromLeBytes(_)
FromLeBytes(b) == IF b = <<>> THEN 0 ELSE Head(b) + 256 * FromLeBytes(Tail(b))

\* vec![0u8; len]
Zeros(len) == [i \in 1..len |-> 0]

\* (&mut buf[at..]).write(bytes): the buffer after the write; the packer sizes the
\* buffer so that every write fits
Write(buf, at, bytes) ==
    [i \in 1..Len(buf) |-> IF i > at /\ i <= at + Len(bytes) THEN bytes[i - at] ELSE buf[i]]

\* the fold of name.len() + content.len() over the collected files
RECURSIVE NamesAndContents(_)
NamesAndContents(all) ==
    IF all = <<>> THEN 0
    ELSE Len(Head(all).name) + Len(Head(all).file) + NamesAndContents(Tail(all))

\* the loop of make_static_disk_from_folder from file k on
RECURSIVE PackFrom(_, _, _, _, _)
PackFrom(all, k, end_file, name_offset, offset) ==
    IF k > Len(all) THEN end_file
    ELSE LET name == all[k].name
             file == all[k].file
             b1 == Write(end_file, name_offset, ToLeBytes(offset))
             b2 == Write(b1, name_offset + USIZE, ToLeBytes(Len(name)))
             b3 == Write(b2, name_offset + 2 * USIZE, ToLeBytes(Len(file)))
             b4 == Write(b3, offset, name)
             b5 == Write(b4, offset + Len(name), file)
         IN  PackFrom(all, k + 1, b5, name_offset + 3 * USIZE, offset + Len(name) + Len(file))

\* make_static_disk_from_folder, from the collected list `all` on
MakeStaticDisk(all) ==
    LET file_count == Len(all)
        total_len == NamesAndContents(all) + USIZE + USIZE * file_count * 3
        end_file == Write(Zeros(total_len), 0, ToLeBytes(file_count))
    IN  PackFrom(all, 1, end_file, USIZE, USIZE + USIZE * file_count * 3)

\* &buf[from..to], None where the range check of the slice index panics
Slice(buf, from, to) ==
    IF from <= to /\ to <= Len(buf) THEN Some(SubSeq(buf, from + 1, to)) ELSE None

SliceOOB == Panic("range index out of range for slice", 0, 0)

\* str::from_utf8 on a name: single-byte code points are accepted as they are, a
\* byte that cannot start a code point is rejected
FromUtf8(bytes) ==
    IF \A i \in 1..Len(bytes) : bytes[i] < 128 THEN Some(bytes) ELSE None

\* InitRamFs::iter
Iter(buf) ==
    LET file_count == Slice(buf, 0, USIZE)
    IN  IF ~IsSome(file_count) THEN [ret |-> None, panic |-> SliceOOB]
        ELSE [ret |-> Some([file_count |-> FromLeBytes(Unwrap(file_count)), current_file |-> 0]),
              panic |-> NoPanic]

\* line 59 of initramfs.rs
M_FileOffset_NameOffset(name_offset, name_len) == name_offset
FileOffset(name_offset, name_len) == name_offset + name_len

\* InitRamFileIterator::next: [it, ret, panic]; an item is [name, content], the
\* content slice given by its place in the ramdisk, [off, len]
IterNext(buf, it) ==
    IF it.current_file >= it.file_count THEN [it |-> it, ret |-> None, panic |-> NoPanic]
    ELSE LET at == USIZE + 3 * USIZE * it.current_file
             current_slice == Slice(buf, at, at + 3 * USIZE)
         IN  IF ~IsSome(current_slice) THEN [it |-> it, ret |-> None, panic |-> SliceOOB]
             ELSE LET cs == Unwrap(current_slice)
                      name_offset == FromLeBytes(SubSeq(cs, 1, 8))
                      name_len == FromLeBytes(SubSeq(cs, 9, 16))
                      file_offset == FileOffset(name_offset, name_len)
                      file_len == FromLeBytes(SubSeq(cs, 17, 24))
                      next == [it EXCEPT !.current_file = @ + 1]
                      name == Slice(buf, name_offset, name_offset + name_len)
                      content == Slice(buf, file_offset, file_offset + file_len)
                  IN  IF ~IsSome(name) THEN [it |-> next, ret |-> None, panic |-> SliceOOB]
                      ELSE IF ~IsSome(FromUtf8(Unwrap(name)))
                      THEN [it |-> next, ret |-> None,
                            panic |-> Panic("InitRamFs file name invalid!!!", 0, 0)]
                      ELSE IF ~IsSome(content) THEN [it |-> next, ret |-> None, panic |-> SliceOOB]
                      ELSE [it |-> next,
                            ret |-> Some([name |-> Unwrap(FromUtf8(Unwrap(name))),
                                          content |-> [off |-> file_offset, len |-> file_len]]),
                            panic |-> NoPanic]

\* the closure of open_file: file == name
M_NameMatches_Prefix(file, name) ==
    Len(file) >= Len(name) /\ SubSeq(file, 1, Len(name)) = name
NameMatches(file, name) == file = name

\* Iterator::find_map over the iterator, as open_file uses it
RECURSIVE FindMap(_, _, _)
FindMap(buf, it, name) ==
    LET r == IterNext(buf, it)
    IN  IF r.panic # NoPanic THEN [ret |-> None, panic |-> r.panic]
        ELSE IF ~IsSome(r.ret) THEN [ret |-> None, panic |-> NoPanic]
        ELSE IF NameMatches(Unwrap(r.ret).name, name)
        THEN [ret |-> Some(Unwrap(r.ret).content), panic |-> NoPanic]
        ELSE FindMap(buf, r.it, name)

\* InitRamFs::open_file
OpenFileOf(buf, name) ==
    LET i == Iter(buf)
    IN  IF i.panic # NoPanic THEN [ret |-> None, panic |-> i.panic]
        ELSE FindMap(buf, Unwrap(i.ret), name)

\* the for loop of initramfs::init: the panic it ends in, if any
RECURSIVE Drain(_, _)
Drain(buf, it) ==
    LET r == IterNext(buf, it)
    IN  IF r.panic # NoPanic THEN r.panic
        ELSE IF ~IsSome(r.ret) THEN NoPanic
        ELSE Drain(buf, r.it)

\* the bytes of a content slice
Bytes(buf, slice) == SubSeq(buf, slice.off + 1, slice.off + slice.len)

\* file names and file contents of the packed folder, as bytes
Names == { <<97>>, <<97, 98>> }
Contents == { <<>>, <<120>>, <<121, 122>> }
FileLists ==
    UNION { [1..n -> [name : Names, file : Contents]] : n \in 0..MaxFiles }

\* the names open_file is asked for: the packed ones and one that is in no ramdisk
AskedNames == Names \cup { <<98>> }

\* the build script has not run yet
FsInit ==
    /\ files \in FileLists
    /\ disk = None /\ INITRAMFS = None
    /\ iter = None /\ yielded = <<>> /\ ended = FALSE /\ opened = None
    /\ regions = <<>> /\ allocators = <<>> /\ phase = "boot"
    /\ live = EmptyBag /\ vframes = EmptyBag /\ lastOp = NoOp
    /\ panic = NoPanic
    /\ SlabIdle /\ IrqIdle
    /\ HaltIdle /\ ModIdle /\ PollIdle /\ LexIdle /\ PageIdle /\ LockIdle
    /\ BigIdle /\ SysIdle /\ OrderIdle

\* build.rs: make_static_disk_from_folder
Build ==
    /\ disk = None
    /\ disk' = Some(MakeStaticDisk(files))
    /\ UNCHANGED <<files, INITRAMFS, iter, yielded, ended, opened>>
    /\ UNCHANGED <<physVars, panic, slabVars, irqVars, haltVars, modVars, pollVars, lexVars, pageVars, lockVars, bigVars, sysVars, orderVars>>

\* initramfs::init on the ramdisk the bootloader loaded
InitramfsInit ==
    /\ Running
    /\ IsSome(disk) /\ INITRAMFS = None
    /\ INITRAMFS' = disk
    /\ LET i == Iter(Unwrap(disk))
       IN  panic' = IF i.panic # NoPanic THEN i.panic ELSE Drain(Unwrap(disk), Unwrap(i.ret))
    /\ UNCHANGED <<files, disk, iter, yielded, ended, opened>>
    /\ UNCHANGED <<physVars, slabVars, irqVars, haltVars, modVars, pollVars, lexVars, pageVars, lockVars, bigVars, sysVars, orderVars>>

\* InitRamFs::iter(): a fresh iterator
FsIter ==
    /\ Running
    /\ IsSome(INITRAMFS)
    /\ LET i == Iter(Unwrap(INITRAMFS))
       IN  /\ iter' = i.ret
           /\ panic' = i.panic
    /\ yielded' = <<>>
    /\ ended' = FALSE
    /\ UNCHANGED <<files, disk, INITRAMFS, opened>>
    /\ UNCHANGED <<physVars, slabVars, irqVars, haltVars, modVars, pollVars, lexVars, pageVars, lockVars, bigVars, sysVars, orderVars>>

\* InitRamFileIterator::next on that iterator
FsNext ==
    /\ Running
    /\ IsSome(INITRAMFS) /\ IsSome(iter)
    /\ LET r == IterNext(Unwrap(INITRAMFS), Unwrap(iter))
       IN  /\ iter' = Some(r.it)
           /\ panic' = r.panic
           /\ yielded' = IF IsSome(r.ret) THEN Append(yielded, Unwrap(r.ret)) ELSE yielded
           /\ ended' = (r.panic = NoPanic /\ ~IsSome(r.ret))
    /\ UNCHANGED <<files, disk, INITRAMFS, opened>>
    /\ UNCHANGED <<physVars, slabVars, irqVars, haltVars, modVars, pollVars, lexVars, pageVars, lockVars, bigVars, sysVars, orderVars>>

\* InitRamFs::open_file(name)
OpenFile(name) ==
    /\ Running
    /\ IsSome(INITRAMFS)
    /\ LET r == OpenFileOf(Unwrap(INITRAMFS), name)
       IN  /\ opened' = Some([name |-> name, ret |-> r.ret])
           /\ panic' = r.panic
    /\ UNCHANGED <<files, disk, INITRAMFS, iter, yielded, ended>>
    /\ UNCHANGED <<physVars, slabVars, irqVars, haltVars, modVars, pollVars, lexVars, pageVars, lockVars, bigVars, sysVars, orderVars>>

FsStep ==
    \/ Build
    \/ InitramfsInit
    \/ FsIter
    \/ FsNext
    \/ \E name \in AskedNames : OpenFile(name)

\* a packed ramdisk, handed to the kernel and read through InitRamFs
SpecFs == FsInit /\ [][FsStep]_vars

\* iter().collect(): every item the iterator yields over a ramdisk it reads without panic
RECURSIVE Collect(_, _)
Collect(buf, it) ==
    LET r == IterNext(buf, it)
    IN  IF r.panic # NoPanic \/ ~IsSome(r.ret) THEN <<>>
        ELSE <<Unwrap(r.ret)>> \o Collect(buf, r.it)

Items == IF IsSome(INITRAMFS) /\ Iter(Unwrap(INITRAMFS)).panic = NoPanic
         THEN Collect(Unwrap(INITRAMFS), Unwrap(Iter(Unwrap(INITRAMFS)).ret))
         ELSE <<>>

\* C6: for every pair (name, bytes) that iter() yields over the ramdisk, open_file(name)
\* returns Some(bytes), the very content slice of that entry.
C6_OpenFileReturnsEveryYieldedPair ==
    IsSome(opened) =>
        \A i \in 1..Len(Items) :
            Items[i].name = Unwrap(opened).name
                => Unwrap(opened).ret = Some(Items[i].content)

\* C6: for every pair (name, bytes) that iter() yields and that no earlier pair shares
\* its name with, open_file(name) returns Some(bytes), the very content slice of that
\* entry: open_file answers with the first entry of that name.
C6_OpenFileReturnsFirstPairOfName ==
    IsSome(opened) =>
        /\ Running
        /\ \A i \in 1..Len(Items) :
              /\ Items[i].name = Unwrap(opened).name
              /\ \A j \in 1..(i - 1) : Items[j].name # Items[i].name
              => Unwrap(opened).ret = Some(Items[i].content)

\* open_file was asked for a name that two entries of different content carry
C6_Witness ==
    /\ IsSome(opened) /\ IsSome(Unwrap(opened).ret)
    /\ \E i, j \in 1..Len(Items) :
          /\ i < j
          /\ Items[i].name = Unwrap(opened).name
          /\ Items[j].name = Unwrap(opened).name
          /\ Bytes(Unwrap(INITRAMFS), Items[i].content) # Bytes(Unwrap(INITRAMFS), Items[j].content)

\* the name_offset field of table entry k, as the ramdisk holds it
NameOffsetOf(buf, k) ==
    FromLeBytes(SubSeq(buf, USIZE + 3 * USIZE * k + 1, USIZE + 3 * USIZE * k + USIZE))

\* C7: iterating the ramdisk the packer built from an ordered list of files yields
\* exactly those files, in that order, each name and each content byte for byte, each
\* content slice starting at name_offset + name_len, and without a panic.
C7_RamdiskRoundTrip ==
    IsSome(INITRAMFS) =>
        /\ Running
        /\ Len(yielded) <= Len(files)
        /\ \A i \in 1..Len(yielded) :
              /\ yielded[i].name = files[i].name
              /\ Bytes(Unwrap(INITRAMFS), yielded[i].content) = files[i].file
              /\ yielded[i].content.off
                    = NameOffsetOf(Unwrap(INITRAMFS), i - 1) + Len(files[i].name)
        /\ ended => Len(yielded) = Len(files)

\* the iterator ran to its end over a ramdisk of MaxFiles files with content
C7_Witness ==
    /\ ended
    /\ Len(yielded) = MaxFiles
    /\ \A i \in 1..Len(yielded) : yielded[i].content.len > 0
    /\ \E i, j \in 1..Len(yielded) : yielded[i].name # yielded[j].name

-----------------------------------------------------------------------------
(* Time and the PIC interrupt path: kernel/src/time.rs, kernel/src/interrupts.rs. *)
(* The CPU clears its interrupt flag on entry, so a handler runs to its end       *)
(* before the next interrupt is delivered.                                        *)

MaxTicks == 1000

U16 == 65536

\* Pic::OFFSET and the command ports of Pic::new
PIC_OFFSET == 32
FIRST_COMMAND == 32
SECOND_COMMAND == 160

\* the interrupt masks Pic::mask writes to the data ports
FIRST_MASK == 224
SECOND_MASK == 46

\* the argument of set_ps_tick_step in Pic::init: picoseconds per tick at 1000 Hz
PS_STEP_1000HZ == 999847619

\* PicInterrupt
Timer == 0
Cascade == 2
Lpt1 == 7
Cmos == 8
SecondaryAta == 15
TodoArms == { 1, 3, 4, 8, 12, 14, 15 }

Bit(n, k) == (n \div (2 ^ k)) % 2

\* Pic::mask: the lines the two data ports disable
Masked(irq) ==
    IF irq < 8 THEN Bit(FIRST_MASK, irq) = 1 ELSE Bit(SECOND_MASK, irq - 8) = 1

\* the IRQs that reach the CPU: the unmasked lines (the cascade line raises none of
\* its own) and the spurious IRQ 7 and IRQ 15, which the PICs raise whatever the mask
DeliverableIrqs == ({ i \in 0..15 : ~Masked(i) } \ { Cascade }) \cup { Lpt1, SecondaryAta }

\* ExceptionVector::try_from(index) is Ok
IsExceptionVector(index) == index \in (0..14) \cup (16..21) \cup (28..30)

\* PicInterrupt::try_from(index): interrupt.wrapping_sub(Pic::OFFSET) < 16
M_PicInterruptTryFrom_Inclusive(index) ==
    LET d == (index - PIC_OFFSET + 256) % 256
    IN  IF d <= 16 THEN Some(d) ELSE None
PicInterruptTryFrom(index) ==
    LET d == (index - PIC_OFFSET + 256) % 256
    IN  IF d < 16 THEN Some(d) ELSE None

\* the vectors the CPU enters handler_func with: the deliverable IRQs, a page fault, a
\* general protection fault and a vector that is neither exception nor PIC interrupt
Vectors == { PIC_OFFSET + i : i \in DeliverableIrqs } \cup { 13, 14, 48 }

\* PIC_SECOND_RANGE.contains(&irq)
InSecondRange(irq) == Cmos <= irq /\ irq <= SecondaryAta

\* Pic::eoi: the command ports it writes 0x20 to
Eoi(irq) == IF InSecondRange(irq) THEN { SECOND_COMMAND } ELSE { FIRST_COMMAND }

\* tick_step, lines 51-54: the carry of BOOT_PS_PART into step, [part, step]
M_TickCarry_NoStep(part, step) ==
    IF part >= 1000 THEN [part |-> (part - 1000 + U16) % U16, step |-> step]
    ELSE [part |-> part, step |-> step]
M_TickCarry_NoSub(part, step) ==
    IF part >= 1000 THEN [part |-> part, step |-> step + 1000]
    ELSE [part |-> part, step |-> step]
TickCarry(part, step) ==
    IF part >= 1000 THEN [part |-> (part - 1000 + U16) % U16, step |-> step + 1000]
    ELSE [part |-> part, step |-> step]

\* the other subsystems are not part of the interrupt path
IrqInit ==
    /\ IrqIdle
    /\ regions = <<>> /\ allocators = <<>> /\ phase = "boot"
    /\ live = EmptyBag /\ vframes = EmptyBag /\ lastOp = NoOp
    /\ panic = NoPanic
    /\ SlabIdle /\ FsIdle
    /\ HaltIdle /\ ModIdle /\ PollIdle /\ LexIdle /\ PageIdle /\ LockIdle
    /\ BigIdle /\ SysIdle /\ OrderIdle

\* the mutexes interrupts::init leaves locked: MutexGuard::leak(idt) keeps HANDLER
LocksAfterInit == { "HANDLER" }

\* interrupts::init: HANDLER.lock(), whose guard is leaked; PIC.lock().init() with
\* Pic::init (set_ps_tick_step), the guard released at the end of the statement; then
\* enable().  A lock() on a locked mutex spins.
InterruptsInit ==
    /\ Running /\ ~enabled
    /\ "HANDLER" \notin locks /\ "PIC" \notin locks
    /\ PS_TICK_STEP' = PS_STEP_1000HZ
    /\ locks' = locks \cup LocksAfterInit
    /\ enabled' = TRUE
    /\ UNCHANGED <<BOOT_NS, BOOT_PS_PART, pic, eoi, ticks, taken, preempted>>
    /\ UNCHANGED <<physVars, panic, slabVars, fsVars, haltVars, modVars, pollVars, lexVars, pageVars, bigVars, sysVars, orderVars>>

\* handler_func(frame, index, error_code), kernel = (rpl == Ring0)
HandlerFunc(index, kernel) ==
    /\ Running /\ pic.pc = "idle"
    /\ IsExceptionVector(index) \/ enabled
    /\ index = PIC_OFFSET + Timer => ticks < MaxTicks
    /\ IF IsExceptionVector(index)
       THEN /\ panic' = IF ~kernel THEN NoPanic
                        ELSE IF index = 14 THEN Panic("kernel page fault", index, 0)
                        ELSE Panic("Unexpected interrupt", index, 0)
            /\ UNCHANGED <<pic, eoi, lockVars, bigVars, sysVars, orderVars>>
       ELSE IF IsSome(PicInterruptTryFrom(index))
       THEN IF "PIC" \in locks
            THEN \* PIC.lock() spins: its holder cannot run while the handler does
                 /\ pic' = [pic EXCEPT !.pc = "spin", !.irq = Unwrap(PicInterruptTryFrom(index)),
                                       !.kernel = kernel]
                 /\ taken' = {}
                 /\ preempted' = locks
                 /\ UNCHANGED <<eoi, panic, locks>>
            ELSE \* PIC.lock(), then Pic::interrupt: PicEnd::new(irq)
                 /\ pic' = [pic EXCEPT !.pc = "interrupt", !.irq = Unwrap(PicInterruptTryFrom(index)),
                                       !.kernel = kernel, !.guard = PicInterruptTryFrom(index)]
                 /\ eoi' = {}
                 /\ locks' = locks \cup { "PIC" }
                 /\ taken' = { "PIC" }
                 /\ preempted' = locks
                 /\ UNCHANGED panic
       ELSE /\ panic' = Panic("Unexpected kernel interrupt", index, 0)
            /\ UNCHANGED <<pic, eoi, lockVars, bigVars, sysVars, orderVars>>
    /\ lastOp' = [op |-> "handler_func", arg |-> Some([index |-> index, kernel |-> kernel]),
                  ret |-> IF IsExceptionVector(index)
                          THEN (IF kernel THEN "panic" ELSE "println")
                          ELSE IF IsSome(PicInterruptTryFrom(index))
                          THEN (IF "PIC" \in locks THEN "spin" ELSE "interrupt")
                          ELSE "panic"]
    /\ UNCHANGED <<timeVars, enabled, ticks>>
    /\ UNCHANGED <<regions, allocators, phase, live, vframes, slabVars, fsVars, haltVars, modVars, pollVars, lexVars, pageVars, bigVars, sysVars, orderVars>>

\* Pic::interrupt: match irq.  The panic handler halts the machine: nothing unwinds,
\* no destructor of the interrupted frames runs.
Interrupt ==
    /\ Running /\ pic.pc = "interrupt"
    /\ IF pic.irq = Timer
       THEN /\ pic' = [pic EXCEPT !.pc = "tick_load"]
            /\ UNCHANGED panic
       ELSE /\ panic' = IF pic.irq \in TodoArms
                        THEN Panic("not yet implemented", pic.irq, 0)
                        ELSE Panic("Unexpected irq", pic.irq, 0)
            /\ UNCHANGED pic
    /\ UNCHANGED <<timeVars, eoi, enabled, ticks>>
    /\ UNCHANGED <<physVars, slabVars, fsVars, haltVars, modVars, pollVars, lexVars, pageVars, lockVars, bigVars, sysVars, orderVars>>

\* tick_step: let mut step = PS_TICK_STEP.load()
TickLoad ==
    /\ Running /\ pic.pc = "tick_load"
    /\ pic' = [pic EXCEPT !.pc = "tick_add", !.step = PS_TICK_STEP]
    /\ UNCHANGED <<timeVars, eoi, enabled, ticks>>
    /\ UNCHANGED <<physVars, panic, slabVars, fsVars, haltVars, modVars, pollVars, lexVars, pageVars, lockVars, bigVars, sysVars, orderVars>>

\* tick_step: BOOT_PS_PART.fetch_add((step % 1000) as u16)
TickAdd ==
    /\ Running /\ pic.pc = "tick_add"
    /\ BOOT_PS_PART' = (BOOT_PS_PART + ((pic.step % 1000) % U16)) % U16
    /\ pic' = [pic EXCEPT !.pc = "tick_carry"]
    /\ UNCHANGED <<BOOT_NS, PS_TICK_STEP, eoi, enabled, ticks>>
    /\ UNCHANGED <<physVars, panic, slabVars, fsVars, haltVars, modVars, pollVars, lexVars, pageVars, lockVars, bigVars, sysVars, orderVars>>

\* tick_step: if BOOT_PS_PART.load() >= 1000 { fetch_sub(1000); step += 1000 }
TickCarryStep ==
    /\ Running /\ pic.pc = "tick_carry"
    /\ LET c == TickCarry(BOOT_PS_PART, pic.step)
       IN  /\ BOOT_PS_PART' = c.part
           /\ pic' = [pic EXCEPT !.pc = "tick_ns", !.step = c.step]
    /\ UNCHANGED <<BOOT_NS, PS_TICK_STEP, eoi, enabled, ticks>>
    /\ UNCHANGED <<physVars, panic, slabVars, fsVars, haltVars, modVars, pollVars, lexVars, pageVars, lockVars, bigVars, sysVars, orderVars>>

\* tick_step: BOOT_NS.fetch_add(step / 1000)
TickNs ==
    /\ Running /\ pic.pc = "tick_ns"
    /\ BOOT_NS' = BOOT_NS + pic.step \div 1000
    /\ ticks' = ticks + 1
    /\ pic' = [pic EXCEPT !.pc = "drop"]
    /\ UNCHANGED <<PS_TICK_STEP, BOOT_PS_PART, eoi, enabled>>
    /\ UNCHANGED <<physVars, panic, slabVars, fsVars, haltVars, modVars, pollVars, lexVars, pageVars, lockVars, bigVars, sysVars, orderVars>>

\* Drop for PicEnd at the end of tick_step: PIC.force_unlock(), PIC.lock().eoi(self.irq)
\* with its guard released at the end of the statement; then the return through
\* Pic::interrupt to handler_func, whose PIC guard is released, and from the interrupt
M_PicEndDrop_NoForceUnlock ==
    /\ Running /\ pic.pc = "drop"
    /\ LET forced == locks
       IN  IF "PIC" \in forced
           THEN /\ pic' = [pic EXCEPT !.pc = "spin"]
                /\ UNCHANGED <<eoi, locks, taken>>
           ELSE /\ eoi' = eoi \cup Eoi(Unwrap(pic.guard))
                /\ pic' = [pic EXCEPT !.pc = "idle", !.guard = None]
                /\ locks' = forced \ { "PIC" }
                /\ taken' = taken \cup { "PIC" }
    /\ UNCHANGED <<timeVars, enabled, ticks, preempted>>
    /\ UNCHANGED <<physVars, panic, slabVars, fsVars, haltVars, modVars, pollVars, lexVars, pageVars, bigVars, sysVars, orderVars>>
PicEndDrop ==
    /\ Running /\ pic.pc = "drop"
    /\ LET forced == locks \ { "PIC" }
       IN  IF "PIC" \in forced
           THEN /\ pic' = [pic EXCEPT !.pc = "spin"]
                /\ UNCHANGED <<eoi, locks, taken>>
           ELSE /\ eoi' = eoi \cup Eoi(Unwrap(pic.guard))
                /\ pic' = [pic EXCEPT !.pc = "idle", !.guard = None]
                /\ locks' = forced \ { "PIC" }
                /\ taken' = taken \cup { "PIC" }
    /\ UNCHANGED <<timeVars, enabled, ticks, preempted>>
    /\ UNCHANGED <<physVars, panic, slabVars, fsVars, haltVars, modVars, pollVars, lexVars, pageVars, bigVars, sysVars, orderVars>>

IrqStep ==
    \/ InterruptsInit
    \/ \E index \in Vectors, kernel \in BOOLEAN : HandlerFunc(index, kernel)
    \/ Interrupt
    \/ TickLoad
    \/ TickAdd
    \/ TickCarryStep
    \/ TickNs
    \/ PicEndDrop

\* the kernel under exceptions and PIC interrupts
SpecIrq == IrqInit /\ [][IrqStep]_vars

\* the CPU goes on executing: a handler that can take its next step takes it
SpecIrqLive == SpecIrq /\ WF_vars(IrqStep)

\* C8: from BOOT_NS = 0 and BOOT_PS_PART = 0, with the tick step of 999_847_619 ps,
\* after N calls of tick_step the boot time is N * floor(STEP / 1000) +
\* floor(N * (STEP mod 1000) / 1000) ns, and after 1000 ticks it lies in
\* [999_847_619, 1_000_000_000].
C8_TicksGiveElapsedNs ==
    /\ BOOT_NS = ticks * (PS_STEP_1000HZ \div 1000) + (ticks * (PS_STEP_1000HZ % 1000)) \div 1000
    /\ ticks = 1000 => (999847619 <= BOOT_NS /\ BOOT_NS <= 1000000000)

\* a thousand ticks have been counted and the handler has returned
C8_Witness ==
    /\ ticks = 1000
    /\ pic.pc = "idle"
    /\ BOOT_NS = 999847619

\* tick_step is between its first write and its last
InTick == pic.pc \in { "tick_add", "tick_carry", "tick_ns" }

\* C9: BOOT_NS never decreases from one state to the next, so no read of
\* boot_time_ns() returns less than an earlier read, and whenever tick_step is not
\* under way BOOT_PS_PART < 1000.
C9_MonotonicNsAndPartBelow1000 ==
    /\ [](~InTick => BOOT_PS_PART < 1000)
    /\ [][BOOT_NS' >= BOOT_NS]_vars

\* a tick has carried a nanosecond out of BOOT_PS_PART and the handler has returned
C9_Witness ==
    /\ pic.pc = "idle"
    /\ ticks >= 2
    /\ BOOT_PS_PART < PS_STEP_1000HZ % 1000
    /\ BOOT_NS = ticks * (PS_STEP_1000HZ \div 1000) + 1

\* C10: for every IRQ delivered to Pic::interrupt, whichever arm of the match is
\* taken, the end-of-interrupt command is written once the guard has been constructed.
C10_EoiOnEveryExitPath == (pic.pc = "interrupt") ~> (eoi # {})

-----------------------------------------------------------------------------
(* The EOI guard by itself: PicEnd::new(irq) and its release, for any IRQ, as a *)
(* handler arm that returns releases it.                                        *)

\* every IRQ line of the two PICs
Irqs == 0..15

\* the statics as interrupts::init leaves them
EoiInit ==
    /\ BOOT_NS = 0 /\ PS_TICK_STEP = PS_STEP_1000HZ /\ BOOT_PS_PART = 0
    /\ pic = [pc |-> "idle", irq |-> 0, kernel |-> FALSE, step |-> 0, guard |-> None]
    /\ eoi = {} /\ enabled = TRUE /\ ticks = 0
    /\ regions = <<>> /\ allocators = <<>> /\ phase = "boot"
    /\ live = EmptyBag /\ vframes = EmptyBag /\ lastOp = NoOp
    /\ panic = NoPanic
    /\ SlabIdle /\ FsIdle
    /\ HaltIdle /\ ModIdle /\ PollIdle /\ LexIdle /\ PageIdle
    /\ locks = LocksAfterInit /\ taken = {} /\ preempted = {}
    /\ BigIdle /\ SysIdle /\ OrderIdle

\* PicEnd::new(irq); lastOp keeps the release before this one
PicEndNew(irq) ==
    /\ Running /\ pic.pc = "idle"
    /\ pic' = [pic EXCEPT !.pc = "drop", !.irq = irq, !.guard = Some(irq)]
    /\ eoi' = {}
    /\ lastOp' = IF eoi = {} THEN NoOp
                 ELSE [op |-> "PicEnd::drop", arg |-> Some(pic.irq), ret |-> "ok"]
    /\ UNCHANGED <<timeVars, enabled, ticks>>
    /\ UNCHANGED <<regions, allocators, phase, live, vframes, panic, slabVars, fsVars, haltVars, modVars, pollVars, lexVars, pageVars, lockVars, bigVars, sysVars, orderVars>>

EoiStep ==
    \/ \E irq \in Irqs : PicEndNew(irq)
    \/ PicEndDrop

SpecEoi == EoiInit /\ [][EoiStep]_vars

\* C11: the release of the EOI guard writes 0x20 to the master command port for every
\* IRQ, and to the slave command port as well when the IRQ is 8 or above.
C11_EoiMasterAlwaysSlaveFrom8 ==
    (pic.pc = "idle" /\ eoi # {}) =>
        eoi = IF pic.irq >= 8 THEN { FIRST_COMMAND, SECOND_COMMAND } ELSE { FIRST_COMMAND }

\* a step of handler_func: taken from outside the interrupt path, interrupts::init apart
HandlerStep == pic.pc = "idle" /\ enabled' = enabled /\ lastOp'.op = "handler_func"

\* what the dispatch table wants of a handler_func step entered with (index, kernel)
DispatchAsTable ==
    LET index == Unwrap(lastOp'.arg).index
        kernel == Unwrap(lastOp'.arg).kernel
    IN  IF IsExceptionVector(index)
        THEN IF kernel
             THEN /\ panic' # NoPanic
                  /\ (index = 14) = (panic'.msg = "kernel page fault")
                  /\ pic' = pic
             ELSE /\ panic' = NoPanic
                  /\ lastOp'.ret = "println"
                  /\ pic' = pic
        ELSE IF index >= 32 /\ index < 48
        THEN /\ panic' = NoPanic
             /\ pic'.pc = "interrupt"
             /\ pic'.irq = index - 32
             /\ pic'.kernel = kernel
        ELSE panic' # NoPanic

\* C12: handler_func picks its action from (ring, vector) as the dispatch table has it:
\* ring 0 with a CPU exception panics (a page fault with its own message), a vector in
\* 0x20..0x30 enters Pic::interrupt with kernel = (ring 0), ring 3 with a CPU exception
\* is logged without a panic, every other vector panics.
C12_DispatchFollowsTable == [][HandlerStep => DispatchAsTable]_vars

\* a user-mode exception was logged and the kernel runs on
C12_Witness ==
    /\ lastOp.op = "handler_func" /\ lastOp.ret = "println"
    /\ ~Unwrap(lastOp.arg).kernel
    /\ Running /\ pic.pc = "idle" /\ enabled

\* PicInterrupt::Keyboard
Keyboard == 1

\* C13: IRQ 1 (keyboard) is handed to the PS/2 module's interrupt handler, a no-op
\* without the module; delivering IRQ 1 never panics the kernel.
C13_KeyboardIrqNeverPanics ==
    (pic.pc = "interrupt" /\ pic.irq = Keyboard) => Running

-----------------------------------------------------------------------------
(* The panic handler: kernel/src/panic.rs.  A panic inside the emergency print *)
(* path enters kernel_panic again, on top of the activation that was printing. *)

\* what the kernel panics with, first or while it prints a panic
PanicMessages == { "Physical OOM!!!", "not yet implemented", "Double free for GAlloc!!!" }

\* the innermost activation of kernel_panic
Top == entries[Len(entries)]
AtTop(pc) == entries # <<>> /\ Top.pc = pc
SetTop(pc) == [entries EXCEPT ![Len(entries)].pc = pc]

\* kernel_panic, lines 14-30: where an activation goes after the two flag loads
M_PanicBranch_NoAgainCheck(has_panicked, has_panicked_again) ==
    IF has_panicked THEN "print_double" ELSE "print_first"
PanicBranch(has_panicked, has_panicked_again) ==
    IF has_panicked
    THEN IF has_panicked_again THEN "hlt" ELSE "print_double"
    ELSE "print_first"

\* the spin mutexes of the print paths: log::COLORS, serial::SERIAL,
\* framebuffer::FRAMEBUFFER
PrintLocks == { "COLORS", "SERIAL", "FRAMEBUFFER" }

\* Mutex::force_unlock
ForceUnlock(ls, l) == ls \ { l }

\* FramePrinter::set_default_static_colors: as the other framebuffer writers it takes
\* FRAMEBUFFER with try_lock and does nothing when the lock is held
SetDefaultStaticColors(ls) == [locks |-> ls, set |-> "FRAMEBUFFER" \notin ls]

\* Log::swap_color: COLORS.lock() spins while the lock is held, and with interrupts off
\* nothing releases it
SwapColor(ls) ==
    IF "COLORS" \in ls
    THEN [locks |-> ls, blocked |-> TRUE]
    ELSE [locks |-> SetDefaultStaticColors(ls).locks, blocked |-> FALSE]

\* SerialPrinter::print with lock() in the place of try_lock()
M_SerialPrint_Lock(ls) == [locks |-> ls, ok |-> "SERIAL" \notin ls, blocked |-> "SERIAL" \in ls]

\* SerialPrinter::print: try_lock, Err when SERIAL is held
SerialPrint(ls) == [locks |-> ls, ok |-> "SERIAL" \notin ls, blocked |-> FALSE]

\* FramePrinter::print_default_static: try_lock, Err when FRAMEBUFFER is held
PrintDefaultStatic(ls) == [locks |-> ls, ok |-> "FRAMEBUFFER" \notin ls, blocked |-> FALSE]

\* SerialPrinter::emergency_print and FramePrinter::emergency_print_default_static
SerialEmergencyPrint(ls) == SerialPrint(ForceUnlock(ls, "SERIAL"))
EmergencyPrintDefaultStatic(ls) == PrintDefaultStatic(ForceUnlock(ls, "FRAMEBUFFER"))

\* emergency_print without the force_unlock before the first swap_color
M_EmergencyPrint_NoForceUnlock(ls) ==
    LET s1 == SwapColor(ls)
        se == SerialEmergencyPrint(s1.locks)
        fe == EmergencyPrintDefaultStatic(se.locks)
        s2 == SwapColor(ForceUnlock(fe.locks, "COLORS"))
    IN  IF s1.blocked THEN [locks |-> s1.locks, blocked |-> TRUE, put |-> {}]
        ELSE IF ~se.ok THEN [locks |-> se.locks, blocked |-> FALSE, put |-> {}]
        ELSE IF ~fe.ok THEN [locks |-> fe.locks, blocked |-> FALSE, put |-> { "serial" }]
        ELSE [locks |-> s2.locks, blocked |-> s2.blocked, put |-> { "serial", "framebuffer" }]

\* Log::emergency_print with the locks ls held: the locks it leaves held, whether it
\* spins on one, and the sinks the message was put out on
EmergencyPrint(ls) ==
    LET s1 == SwapColor(ForceUnlock(ls, "COLORS"))
        se == SerialEmergencyPrint(s1.locks)
        fe == EmergencyPrintDefaultStatic(se.locks)
        s2 == SwapColor(ForceUnlock(fe.locks, "COLORS"))
    IN  IF s1.blocked THEN [locks |-> s1.locks, blocked |-> TRUE, put |-> {}]
        ELSE IF ~se.ok THEN [locks |-> se.locks, blocked |-> FALSE, put |-> {}]
        ELSE IF ~fe.ok THEN [locks |-> fe.locks, blocked |-> FALSE, put |-> { "serial" }]
        ELSE [locks |-> s2.locks, blocked |-> s2.blocked, put |-> { "serial", "framebuffer" }]

\* the locks emergency_print holds where it can panic: in swap_color, in the serial
\* writer, in the framebuffer writer
PrintPathHolds == { { "COLORS" }, { "COLORS", "FRAMEBUFFER" }, { "SERIAL" }, { "FRAMEBUFFER" } }

\* the kernel runs, with interrupts on or off
PanicInit ==
    /\ HAS_PANICKED = FALSE /\ HAS_PANICKED_AGAIN = FALSE
    /\ entries = <<>> /\ printed = <<>>
    /\ enabled \in BOOLEAN
    /\ BOOT_NS = 0 /\ PS_TICK_STEP = 0 /\ BOOT_PS_PART = 0
    /\ pic = [pc |-> "idle", irq |-> 0, kernel |-> FALSE, step |-> 0, guard |-> None]
    /\ eoi = {} /\ ticks = 0
    /\ regions = <<>> /\ allocators = <<>> /\ phase = "boot"
    /\ live = EmptyBag /\ vframes = EmptyBag /\ lastOp = NoOp
    /\ panic = NoPanic
    /\ SlabIdle /\ FsIdle /\ ModIdle /\ PollIdle /\ LexIdle /\ PageIdle /\ LockIdle
    /\ BigIdle /\ SysIdle /\ OrderIdle

\* a panic in the running kernel: kernel_panic is entered
KernelPanic(msg) ==
    /\ entries = <<>>
    /\ entries' = <<[pc |-> "disable", msg |-> msg, held |-> locks]>>
    /\ panic' = Panic(msg, 0, 0)
    /\ UNCHANGED <<HAS_PANICKED, HAS_PANICKED_AGAIN, printed>>
    /\ UNCHANGED <<physVars, slabVars, fsVars, irqVars, modVars, pollVars, lexVars, pageVars, lockVars, bigVars, sysVars, orderVars>>

\* kernel_panic: disable()
PanicDisable ==
    /\ AtTop("disable")
    /\ enabled' = FALSE
    /\ entries' = SetTop("check")
    /\ UNCHANGED <<HAS_PANICKED, HAS_PANICKED_AGAIN, printed>>
    /\ UNCHANGED <<timeVars, pic, eoi, ticks>>
    /\ UNCHANGED <<physVars, panic, slabVars, fsVars, modVars, pollVars, lexVars, pageVars, lockVars, bigVars, sysVars, orderVars>>

\* kernel_panic: the loads of HAS_PANICKED and HAS_PANICKED_AGAIN and the store
PanicCheck ==
    /\ AtTop("check")
    /\ LET to == PanicBranch(HAS_PANICKED, HAS_PANICKED_AGAIN)
       IN  /\ entries' = SetTop(to)
           /\ HAS_PANICKED' = (HAS_PANICKED \/ to = "print_first")
           /\ HAS_PANICKED_AGAIN' = (HAS_PANICKED_AGAIN \/ to = "print_double")
    /\ UNCHANGED printed
    /\ UNCHANGED <<physVars, panic, slabVars, fsVars, irqVars, modVars, pollVars, lexVars, pageVars, lockVars, bigVars, sysVars, orderVars>>

\* eprintln!: the message is put out through Log::emergency_print, or the print path
\* panics with msg
PanicPrint ==
    /\ AtTop("print_first") \/ AtTop("print_double")
    /\ LET r == EmergencyPrint(locks)
       IN  /\ locks' = r.locks
           /\ printed' = IF r.blocked THEN printed
                         ELSE Append(printed, [by |-> Len(entries), msg |-> Top.msg,
                                               text |-> IF Top.pc = "print_first" THEN "panic"
                                                        ELSE "DOUBLE PANIC",
                                               put |-> r.put])
           /\ entries' = SetTop(IF r.blocked THEN "spin" ELSE "hlt")
    /\ UNCHANGED <<HAS_PANICKED, HAS_PANICKED_AGAIN, taken, preempted>>
    /\ UNCHANGED <<physVars, panic, slabVars, fsVars, irqVars, modVars, pollVars, lexVars, pageVars, bigVars, sysVars, orderVars>>

\* a panic inside emergency_print, with the locks of the print path it was in held
PanicInPrint(msg, held) ==
    /\ AtTop("print_first") \/ AtTop("print_double")
    /\ locks' = ForceUnlock(locks, "COLORS") \cup held
    /\ entries' = Append(entries, [pc |-> "disable", msg |-> msg, held |-> locks'])
    /\ UNCHANGED <<HAS_PANICKED, HAS_PANICKED_AGAIN, printed, taken, preempted>>
    /\ UNCHANGED <<physVars, panic, slabVars, fsVars, irqVars, modVars, pollVars, lexVars, pageVars, bigVars, sysVars, orderVars>>

\* loop { hlt() }
Hlt ==
    /\ AtTop("hlt")
    /\ UNCHANGED vars

PanicStep ==
    \/ \E msg \in PanicMessages : KernelPanic(msg)
    \/ PanicDisable
    \/ PanicCheck
    \/ PanicPrint
    \/ \E msg \in PanicMessages, held \in PrintPathHolds : PanicInPrint(msg, held)
    \/ Hlt

SpecPanic == PanicInit /\ [][PanicStep]_vars

\* the kernel runs with any of the print locks held
EmergencyInit ==
    /\ HAS_PANICKED = FALSE /\ HAS_PANICKED_AGAIN = FALSE
    /\ entries = <<>> /\ printed = <<>>
    /\ enabled \in BOOLEAN
    /\ BOOT_NS = 0 /\ PS_TICK_STEP = 0 /\ BOOT_PS_PART = 0
    /\ pic = [pc |-> "idle", irq |-> 0, kernel |-> FALSE, step |-> 0, guard |-> None]
    /\ eoi = {} /\ ticks = 0
    /\ regions = <<>> /\ allocators = <<>> /\ phase = "boot"
    /\ live = EmptyBag /\ vframes = EmptyBag /\ lastOp = NoOp
    /\ panic = NoPanic
    /\ SlabIdle /\ FsIdle /\ ModIdle /\ PollIdle /\ LexIdle /\ PageIdle
    /\ locks \in SUBSET PrintLocks /\ taken = {} /\ preempted = {}
    /\ BigIdle /\ SysIdle /\ OrderIdle

\* the CPU keeps executing kernel_panic
PanicRuns == PanicDisable \/ PanicCheck \/ PanicPrint

SpecEmergency == EmergencyInit /\ [][PanicStep]_vars
SpecEmergencyLive == SpecEmergency /\ WF_vars(PanicRuns)

\* what activation k has printed
PrintedBy(k) == { i \in 1..Len(printed) : printed[i].by = k }

\* the first entry prints the panic message, the second the DOUBLE PANIC message, no
\* other entry prints, and an entry has interrupts off before it does anything else
PanicChainState ==
    /\ \A i \in 1..Len(printed) :
          /\ printed[i].by \in { 1, 2 }
          /\ printed[i].msg = entries[printed[i].by].msg
          /\ printed[i].text = (IF printed[i].by = 1 THEN "panic" ELSE "DOUBLE PANIC")
    /\ \A k \in 1..Len(entries) :
          /\ Cardinality(PrintedBy(k)) <= 1
          /\ (entries[k].pc = "hlt" /\ k <= 2) => PrintedBy(k) # {}
          /\ entries[k].pc # "disable" => ~enabled
    /\ (HAS_PANICKED \/ printed # <<>>) => ~enabled

\* no activation of kernel_panic returns, and one that halts stays halted
PanicChainStep ==
    /\ Len(entries') >= Len(entries)
    /\ \A k \in 1..Len(entries) :
          /\ entries'[k].msg = entries[k].msg
          /\ entries[k].pc = "hlt" => entries'[k].pc = "hlt"

\* C14: over any chain of nested panics the first entry of the panic handler prints the
\* panic message, the second prints the DOUBLE PANIC message, every later entry prints
\* nothing, each entry disables interrupts first, and no entry ever returns.
C14_PanicHandlerReentrantTwice == []PanicChainState /\ [][PanicChainStep]_vars

\* a third panic, raised while DOUBLE PANIC was being printed, halts without a print
C14_Witness ==
    /\ Len(entries) = 3
    /\ entries[3].pc = "hlt"
    /\ PrintedBy(3) = {}
    /\ HAS_PANICKED /\ HAS_PANICKED_AGAIN

-----------------------------------------------------------------------------
(* Kernel modules: kernel/src/modules.rs, called from lib::init and main. *)

\* the length of the array in EXTRA_KERNEL_MODULES
EXTRA_CAP == 255

\* the static modules in the order of their declaration in KERNEL_MODULES
Declared == << "ps2", "sata" >>

\* the modules a build configuration selects (cfg(module_ps2), cfg(module_sata))
RECURSIVE Selected(_, _)
Selected(decl, on) ==
    IF decl = <<>> THEN <<>>
    ELSE (IF Head(decl) \in on THEN <<Head(decl)>> ELSE <<>>) \o Selected(Tail(decl), on)

\* modules handed to register(): one whose init succeeds, one whose init fails
LateModules == { "late_ok", "late_err" }

\* what (module.init)() can return: ps2_init returns true, sata_init returns whether it
\* found a controller it could set up
InitOutcomes(module) ==
    CASE module = "ps2" -> { TRUE }
      [] module = "sata" -> BOOLEAN
      [] module = "late_ok" -> { TRUE }
      [] module = "late_err" -> { FALSE }

\* modules::init, lines 49-54: count after a module's init
M_CountAfter_Always(count, success) == count + 1
CountAfter(count, success) == IF success THEN count + 1 ELSE count

\* register, line 65: guard.1 >= guard.0.len()
M_RegistryFull_Greater(n) == n > EXTRA_CAP
M_RegistryFull_Early(n) == n + 1 >= EXTRA_CAP
RegistryFull(n) == n >= EXTRA_CAP

\* lib::init has come to its call of modules::init
ModInit ==
    /\ KERNEL_MODULES \in { Selected(Declared, on) : on \in SUBSET { "ps2", "sata" } }
    /\ boot = [pc |-> "modules_init", index |-> 0, count |-> 0, ret |-> None]
    /\ initLog = <<>> /\ extra = <<>> /\ lateInit = <<>>
    /\ regions = <<>> /\ allocators = <<>> /\ phase = "boot"
    /\ live = EmptyBag /\ vframes = EmptyBag /\ lastOp = NoOp
    /\ panic = NoPanic
    /\ SlabIdle /\ FsIdle /\ IrqIdle /\ HaltIdle /\ PollIdle /\ LexIdle /\ PageIdle /\ LockIdle
    /\ BigIdle /\ SysIdle /\ OrderIdle

\* modules::init: one turn of the loop over KERNEL_MODULES
ModulesInitLoop ==
    /\ Running /\ boot.pc = "modules_init"
    /\ boot.index < Len(KERNEL_MODULES)
    /\ \E success \in InitOutcomes(KERNEL_MODULES[boot.index + 1]) :
          /\ initLog' = Append(initLog, [module |-> KERNEL_MODULES[boot.index + 1],
                                         success |-> success])
          /\ boot' = [boot EXCEPT !.index = @ + 1, !.count = CountAfter(@, success)]
    /\ UNCHANGED <<KERNEL_MODULES, extra, lateInit>>
    /\ UNCHANGED <<physVars, panic, slabVars, fsVars, irqVars, haltVars, pollVars, lexVars, pageVars, lockVars, bigVars, sysVars, orderVars>>

\* modules::init returns (count, KERNEL_MODULES.len()); lib::init logs it
ModulesInitReturn ==
    /\ Running /\ boot.pc = "modules_init"
    /\ boot.index = Len(KERNEL_MODULES)
    /\ boot' = [boot EXCEPT !.pc = "initialized", !.ret = Some(<<boot.count, Len(KERNEL_MODULES)>>)]
    /\ UNCHANGED <<KERNEL_MODULES, initLog, extra, lateInit>>
    /\ UNCHANGED <<physVars, panic, slabVars, fsVars, irqVars, haltVars, pollVars, lexVars, pageVars, lockVars, bigVars, sysVars, orderVars>>

\* main: info!("Initialization complete!")
InitializationComplete ==
    /\ Running /\ boot.pc = "initialized"
    /\ boot' = [boot EXCEPT !.pc = "complete"]
    /\ UNCHANGED <<KERNEL_MODULES, initLog, extra, lateInit>>
    /\ UNCHANGED <<physVars, panic, slabVars, fsVars, irqVars, haltVars, pollVars, lexVars, pageVars, lockVars, bigVars, sysVars, orderVars>>

\* register(module), after the initial pass
Register(module) ==
    /\ Running /\ boot.pc = "complete"
    /\ IF RegistryFull(Len(extra))
       THEN /\ lateInit' = <<>>
            /\ lastOp' = [op |-> "register", arg |-> Some(module), ret |-> "false"]
            /\ UNCHANGED <<extra, panic>>
       ELSE \E success \in InitOutcomes(module) :
               /\ lateInit' = <<module>>
               /\ IF ~success
                  THEN /\ lastOp' = [op |-> "register", arg |-> Some(module), ret |-> "false"]
                       /\ UNCHANGED <<extra, panic>>
                  ELSE IF Len(extra) >= EXTRA_CAP
                  THEN \* guard.0[index]: the index is out of bounds
                       /\ lastOp' = [op |-> "register", arg |-> Some(module), ret |-> "panic"]
                       /\ panic' = Panic("index out of bounds", Len(extra), EXTRA_CAP)
                       /\ UNCHANGED extra
                  ELSE /\ extra' = Append(extra, module)
                       /\ lastOp' = [op |-> "register", arg |-> Some(module), ret |-> "true"]
                       /\ UNCHANGED panic
    /\ UNCHANGED <<KERNEL_MODULES, boot, initLog>>
    /\ UNCHANGED <<regions, allocators, phase, live, vframes>>
    /\ UNCHANGED <<slabVars, fsVars, irqVars, haltVars, pollVars, lexVars, pageVars, lockVars, bigVars, sysVars, orderVars>>

ModStep ==
    \/ ModulesInitLoop
    \/ ModulesInitReturn
    \/ InitializationComplete
    \/ \E module \in LateModules : Register(module)

SpecMod == ModInit /\ [][ModStep]_vars

\* the number of logged inits that returned true
Successes == Cardinality({ i \in 1..Len(initLog) : initLog[i].success })

\* C15: modules::init invokes init() of every compile-selected static module exactly
\* once, in declaration order, goes on after a module whose init returned false, and
\* returns (number of modules whose init returned true, number of static modules); the
\* boot never panics over a failing module.
C15_ModulesInitTally ==
    /\ Running
    /\ Len(initLog) = boot.index
    /\ \A i \in 1..Len(initLog) : initLog[i].module = KERNEL_MODULES[i]
    /\ boot.count = Successes
    /\ boot.pc \in { "initialized", "complete" } =>
          /\ Len(initLog) = Len(KERNEL_MODULES)
          /\ boot.ret = Some(<<Successes, Len(KERNEL_MODULES)>>)

\* one static module, its init failed: the tally is (0, 1) and the boot has reached
\* the Initialization complete log
C15_Witness ==
    /\ boot.pc = "complete"
    /\ boot.ret = Some(<<0, 1>>)
    /\ Len(initLog) = 1 /\ ~initLog[1].success

\* a step of register(module)
RegisterStep == boot.pc = "complete" /\ lastOp'.op = "register"

\* C16: every register(module) call made while the late registry has room invokes
\* module.init() exactly once during the call and appends the module to the late
\* registry, the boolean result reporting the outcome.
C16_RegisterAppendsAndInits ==
    [][(RegisterStep /\ Len(extra) < EXTRA_CAP) =>
          /\ lateInit' = <<Unwrap(lastOp'.arg)>>
          /\ extra' = Append(extra, Unwrap(lastOp'.arg))]_vars

\* C16: every register(module) call made while the late registry has room invokes
\* module.init() exactly once during the call; it appends the module to the late
\* registry and returns true when that init returned true, and leaves the registry as
\* it was and returns false when that init returned false.
C16_RegisterInitsAndAppendsOnSuccess ==
    [][(RegisterStep /\ Len(extra) < EXTRA_CAP) =>
          /\ lateInit' = <<Unwrap(lastOp'.arg)>>
          /\ panic' = NoPanic
          /\ \/ /\ lastOp'.ret = "true"
                /\ TRUE \in InitOutcomes(Unwrap(lastOp'.arg))
                /\ extra' = Append(extra, Unwrap(lastOp'.arg))
             \/ /\ lastOp'.ret = "false"
                /\ FALSE \in InitOutcomes(Unwrap(lastOp'.arg))
                /\ extra' = extra]_vars

\* a module whose init failed was registered while there was room: it is not in the
\* registry, which holds the modules registered with success before it
C16_Witness ==
    /\ lastOp.op = "register" /\ lastOp.arg = Some("late_err") /\ lastOp.ret = "false"
    /\ lateInit = <<"late_err">>
    /\ Len(extra) = 2

\* C17: the late registry never holds more than 255 modules, its count grows by one
\* with every register call that returns true and only then, and a register call on a
\* full registry returns false, invokes no init() and leaves the registry as it was.
C17_RegistryCapacity ==
    /\ [](Len(extra) <= 255)
    /\ [][RegisterStep =>
             /\ Len(extra') = Len(extra) + (IF lastOp'.ret = "true" THEN 1 ELSE 0)
             /\ Len(extra) = 255 =>
                   (lastOp'.ret = "false" /\ lateInit' = <<>> /\ extra' = extra)]_vars

\* a register call found the registry full
C17_Witness ==
    /\ Len(extra) = 255
    /\ lastOp.op = "register" /\ lastOp.ret = "false" /\ lastOp.arg = Some("late_ok")
    /\ lateInit = <<>>

-----------------------------------------------------------------------------
(* Time::timeout_poll_*: kernel/src/time.rs.  The caller spins on the CPU the  *)
(* timer interrupt preempts: it takes its steps between interrupt handlers.    *)

MaxPollTicks == 6

\* timeout_poll_us / _ms / _s: each multiplies by 1000 and calls the next finer one
RECURSIVE ToNs(_, _)
ToNs(unit, t) ==
    CASE unit = "ns" -> t
      [] unit = "us" -> ToNs("ns", t * 1000)
      [] unit = "ms" -> ToNs("us", t * 1000)
      [] unit = "s" -> ToNs("ms", t * 1000)

\* the calls made: (variant, timeout)
Timeouts == { <<"ns", 0>>, <<"ns", 1500000>>, <<"us", 1000>>, <<"ms", 2>>, <<"s", 0>> }

\* the timer ticks it takes at most to pass a deadline timeout_ns away
TicksToPass(timeout_ns) == timeout_ns \div (PS_STEP_1000HZ \div 1000) + 2

\* line 19: boot_time_ns() <= end_time_ns
M_WithinDeadline_Always(now, end_time_ns) == TRUE
WithinDeadline(now, end_time_ns) == now <= end_time_ns

\* interrupts::init has run; interrupts are on, or the caller has them masked
PollInit ==
    /\ BOOT_NS = 0 /\ PS_TICK_STEP = PS_STEP_1000HZ /\ BOOT_PS_PART = 0
    /\ pic = [pc |-> "idle", irq |-> 0, kernel |-> FALSE, step |-> 0, guard |-> None]
    /\ eoi = {} /\ ticks = 0
    /\ enabled \in BOOLEAN
    /\ PollIdle /\ LexIdle /\ PageIdle
    /\ locks = LocksAfterInit /\ taken = {} /\ preempted = {}
    /\ BigIdle /\ SysIdle /\ OrderIdle
    /\ regions = <<>> /\ allocators = <<>> /\ phase = "boot"
    /\ live = EmptyBag /\ vframes = EmptyBag /\ lastOp = NoOp
    /\ panic = NoPanic
    /\ SlabIdle /\ FsIdle /\ HaltIdle /\ ModIdle

\* the caller runs: no interrupt handler is on the CPU
CallerRuns == Running /\ pic.pc = "idle"

\* Time::timeout_poll_{ns,us,ms,s}(t, f) is called and reads the clock:
\* let end_time_ns = Self::boot_time_ns() + timeout_ns
PollCall(unit, t) ==
    /\ CallerRuns /\ poll.pc = "none"
    /\ ticks + TicksToPass(ToNs(unit, t)) <= MaxPollTicks
    /\ poll' = [poll EXCEPT !.pc = "check", !.timeout_ns = ToNs(unit, t),
                            !.start = BOOT_NS,
                            !.end_time_ns = BOOT_NS + ToNs(unit, t)]
    /\ UNCHANGED <<physVars, panic, slabVars, fsVars, irqVars, haltVars, modVars, lexVars, pageVars, lockVars, bigVars, sysVars, orderVars>>

\* while Self::boot_time_ns() <= end_time_ns, and the return of false after the loop
PollCheck ==
    /\ CallerRuns /\ poll.pc = "check"
    /\ poll' = IF WithinDeadline(BOOT_NS, poll.end_time_ns)
               THEN [poll EXCEPT !.pc = "poll"]
               ELSE [poll EXCEPT !.pc = "ret", !.ret = Some(FALSE)]
    /\ UNCHANGED <<physVars, panic, slabVars, fsVars, irqVars, haltVars, modVars, lexVars, pageVars, lockVars, bigVars, sysVars, orderVars>>

\* if poll() { return true; } spin_loop();
PollF(result) ==
    /\ CallerRuns /\ poll.pc = "poll"
    /\ poll' = IF result
               THEN [poll EXCEPT !.pc = "ret", !.called = TRUE, !.sawTrue = TRUE,
                                 !.ret = Some(TRUE)]
               ELSE [poll EXCEPT !.pc = "check", !.called = TRUE]
    /\ UNCHANGED <<physVars, panic, slabVars, fsVars, irqVars, haltVars, modVars, lexVars, pageVars, lockVars, bigVars, sysVars, orderVars>>

\* the caller's steps
PollCaller ==
    \/ \E c \in Timeouts : PollCall(c[1], c[2])
    \/ PollCheck
    \/ \E result \in BOOLEAN : PollF(result)

\* the timer interrupt, from its delivery to the return of its handler
TimerTick ==
    \/ (ticks < MaxPollTicks /\ \E kernel \in BOOLEAN : HandlerFunc(PIC_OFFSET + Timer, kernel))
    \/ Interrupt
    \/ TickLoad
    \/ TickAdd
    \/ TickCarryStep
    \/ TickNs
    \/ PicEndDrop

PollStep ==
    \/ PollCaller
    \/ TimerTick

SpecPoll == PollInit /\ [][PollStep]_vars

\* the caller keeps running and, with interrupts on, the timer keeps ticking
SpecPollLive == SpecPoll /\ WF_vars(PollCaller) /\ WF_vars(TimerTick)

\* C18: timeout_poll_ns(t, f) returns true exactly when a call of f returned true, has
\* called f at least once when it returns, also for t = 0, and returns false only when
\* boot_time_ns() is past start + t; the variants scale t by 10^3, 10^6 and 10^9.
C18_PollUntilTrueOrDeadline ==
    poll.pc = "ret" =>
        /\ poll.ret = Some(poll.sawTrue)
        /\ poll.called
        /\ poll.ret = Some(FALSE) => BOOT_NS > poll.start + poll.timeout_ns

\* C19: with interrupts on and the timer ticking, every call of timeout_poll_* returns,
\* also when f never returns true; with interrupts masked a call returns only if f
\* returned true.
C19_PollReturnsUnderTicks ==
    /\ (enabled /\ poll.pc # "none") ~> (poll.pc = "ret")
    /\ []((~enabled /\ poll.pc = "ret") => poll.sawTrue)

\* f never returned true and the call returned false after the deadline had passed
C19_Witness ==
    /\ poll.pc = "ret" /\ poll.ret = Some(FALSE)
    /\ poll.called /\ ~poll.sawTrue
    /\ poll.timeout_ns > 0
    /\ BOOT_NS > poll.end_time_ns

-----------------------------------------------------------------------------
(* Double free of a frame: kernel/src/mem/phys.rs, lines 56-76 *)

\* deallocate_frame(f) succeeded on a frame of a region's bitmap, which is a frame
\* allocate_frame had returned, and deallocate_frame(f) is called again
DoubleFreeStep ==
    /\ lastOp.op = "deallocate_frame" /\ lastOp.ret = "ok"
    /\ Tracked(allocators, Unwrap(lastOp.arg))
    /\ lastOp'.op = "deallocate_frame" /\ lastOp'.arg = lastOp.arg

\* C20: a frame is allocated, freed and freed again: the second free panics and the
\* frame's physical address is among the values the panic message prints.
C20_DoubleFreePanicsWithFrameAddress ==
    [][DoubleFreeStep =>
        /\ panic' # NoPanic
        /\ Unwrap(lastOp'.arg) \in { panic'.a, panic'.b }]_vars

-----------------------------------------------------------------------------
(* Spans of the source text: compiler/src/lexer.rs, lines 3-95 *)

MaxPos == 3

Positions == 0..MaxPos

\* Span::new_raw: any start and any end
NewRaw(start, end) == [start |-> start, end |-> end]

\* Span::new_inclusive(start..=end)
NewInclusive(start, end) == NewRaw(start, end + 1)

\* Span::new_exclusive(start..end)
NewExclusive(start, end) == NewRaw(start, end)

\* Span::new_single
NewSingle(position) == NewRaw(position, position + 1)

\* the spans the constructors make of positions of the source
SpanValues ==
    { NewRaw(s, e) : s \in Positions, e \in Positions }
        \cup { NewExclusive(s, e) : s \in Positions, e \in Positions }
        \cup { NewInclusive(s, e) : s \in Positions, e \in 0..(MaxPos - 1) }
        \cup { NewSingle(p) : p \in 0..(MaxPos - 1) }

\* Span::merge_unchecked
MergeUnchecked(lhs, rhs) == NewRaw(lhs.start, rhs.end)

\* Span::merge
Merge(lhs, rhs) ==
    IF lhs.end = rhs.start THEN Some(MergeUnchecked(lhs, rhs))
    ELSE IF rhs.end = lhs.start THEN Some(MergeUnchecked(rhs, lhs))
    ELSE None

\* Span::gap_merge
GapMerge(lhs, rhs) ==
    LET m == Merge(lhs, rhs)
    IN  IF IsSome(m) THEN m
        ELSE IF lhs.end < rhs.start THEN Some(MergeUnchecked(lhs, rhs))
        ELSE IF rhs.end < lhs.start THEN Some(MergeUnchecked(rhs, lhs))
        ELSE None

\* Span::complete_merge
CompleteMerge(lhs, rhs) ==
    LET g == GapMerge(lhs, rhs)
    IN  IF IsSome(g) THEN Unwrap(g)
        ELSE NewRaw(IF lhs.start < rhs.start THEN lhs.start ELSE rhs.start,
                    IF lhs.end > rhs.end THEN lhs.end ELSE rhs.end)

SpanInit ==
    /\ LexIdle
    /\ regions = <<>> /\ allocators = <<>> /\ phase = "boot"
    /\ live = EmptyBag /\ vframes = EmptyBag /\ lastOp = NoOp
    /\ panic = NoPanic
    /\ SlabIdle /\ FsIdle /\ IrqIdle /\ HaltIdle /\ ModIdle /\ PollIdle /\ PageIdle /\ LockIdle
    /\ BigIdle /\ SysIdle /\ OrderIdle

\* impl Add for Span: lhs + rhs
SpanAdd(lhs, rhs) ==
    /\ spans' = [op |-> "add", lhs |-> lhs, rhs |-> rhs, ret |-> Some(CompleteMerge(lhs, rhs))]
    /\ UNCHANGED <<physVars, panic, slabVars, fsVars, irqVars, haltVars, modVars, pollVars, lex, pageVars, lockVars, bigVars, sysVars, orderVars>>

\* Span::merge(lhs, rhs)
SpanMerge(lhs, rhs) ==
    /\ spans' = [op |-> "merge", lhs |-> lhs, rhs |-> rhs, ret |-> Merge(lhs, rhs)]
    /\ UNCHANGED <<physVars, panic, slabVars, fsVars, irqVars, haltVars, modVars, pollVars, lex, pageVars, lockVars, bigVars, sysVars, orderVars>>

SpanStep ==
    \/ \E lhs \in SpanValues, rhs \in SpanValues : SpanAdd(lhs, rhs)
    \/ \E lhs \in SpanValues, rhs \in SpanValues : SpanMerge(lhs, rhs)

SpecSpan == SpanInit /\ [][SpanStep]_vars

\* the least start and the greatest end of two spans
Covering(a, b) ==
    NewRaw(IF a.start <= b.start THEN a.start ELSE b.start,
           IF a.end >= b.end THEN a.end ELSE b.end)

\* C21: for any two spans a and b, a + b is the span from min(a.start, b.start) to
\* max(a.end, b.end), and a + b = b + a.
C21_AddIsSmallestCoveringSpan ==
    spans.op = "add" =>
        /\ spans.ret = Some(Covering(spans.lhs, spans.rhs))
        /\ spans.ret = Some(CompleteMerge(spans.rhs, spans.lhs))

\* C22: for any two spans a and b, merge(a, b) is Some exactly when merge(b, a) is
\* Some, and then both hold the same span.
C22_MergeCommutes ==
    spans.op = "merge" => spans.ret = Merge(spans.rhs, spans.lhs)

-----------------------------------------------------------------------------
(* RawLexer: compiler/src/lexer.rs, lines 280-390.  A source is a sequence of  *)
(* characters; positions are byte offsets into its UTF-8 encoding.             *)

MaxSource == 3

\* the characters of the sources: letters, the two-byte letter e-acute, a digit, white
\* space, two symbols and a character no token starts with
Alphabet == { "i", "f", "U+00E9", "1", " ", "+", "=", "$" }

\* char::len_utf8
Utf8Len(chr) == IF chr = "U+00E9" THEN 2 ELSE 1

\* char::is_whitespace, is_alphabetic, is_alphanumeric
IsWhitespace(chr) == chr \in { " ", "\n", "\t" }
IsAlphabetic(chr) == chr \in { "i", "f", "U+00E9" }
IsAlphanumeric(chr) == IsAlphabetic(chr) \/ chr = "1"

Sources == UNION { [1..n -> Alphabet] : n \in 0..MaxSource }

\* CharIndices: the byte offset of the k-th character, k from 1; for k = Len + 1 it is
\* str::len
RECURSIVE ByteOffset(_, _)
ByteOffset(source, k) ==
    IF k <= 1 THEN 0 ELSE ByteOffset(source, k - 1) + Utf8Len(source[k - 1])

\* Keyword::try_from
Keywords == { <<"f", "n">>, <<"r", "e", "t", "u", "r", "n">>, <<"i", "f">>,
              <<"e", "l", "s", "e">>, <<"t", "r", "a", "i", "t">>,
              <<"s", "t", "r", "u", "c", "t">>, <<"e", "n", "u", "m">>,
              <<"d", "e", "c", "l">> }

\* the arms of the match on chr that use symbol!: the symbol of the character alone and
\* the symbols it makes with the character after it
SymbolArms ==
    [ first : { "Add" }, chr : { "+" }, pairs : { { <<"=", "AddAssign">> } } ]
    \cup [ first : { "Sub" }, chr : { "-" }, pairs : { { <<"=", "SubAssign">> } } ]
    \cup [ first : { "Star" }, chr : { "*" }, pairs : { { <<"=", "MulAssign">> } } ]
    \cup [ first : { "Div" }, chr : { "/" }, pairs : { { <<"=", "DivAssign">> } } ]
    \cup [ first : { "BitAnd" }, chr : { "&" }, pairs : { { <<"&", "And">>, <<"=", "AndAssign">> } } ]
    \cup [ first : { "BitOr" }, chr : { "|" }, pairs : { { <<"|", "Or">>, <<"=", "OrAssign">> } } ]
    \cup [ first : { "BitXor" }, chr : { "^" }, pairs : { { <<"=", "XorAssign">> } } ]
    \cup [ first : { "Assign" }, chr : { "=" }, pairs : { { <<"=", "Eq">> } } ]
    \cup [ first : { "Less" }, chr : { "<" }, pairs : { { <<"<", "LShift">>, <<"=", "LessEq">> } } ]
    \cup [ first : { "Greater" }, chr : { ">" }, pairs : { { <<">", "RShift">>, <<"=", "GreaterEq">> } } ]
    \cup [ first : { "Not" }, chr : { "!" }, pairs : { { <<"=", "Ne">> } } ]
    \cup { [ first |-> a[2], chr |-> a[1], pairs |-> {} ] :
             a \in { <<"~", "BitNot">>, <<"(", "LParen">>, <<")", "RParen">>,
                     <<"[", "LBrack">>, <<"]", "RBrack">>, <<"{", "LBrace">>,
                     <<"}", "RBrace">>, <<"?", "Try">>, <<"@", "FieldAt">>,
                     <<".", "FnAt">>, <<"#", "IntoTrait">>, <<";", "Semi">> } }

IsSymbolStart(chr) == \E a \in SymbolArms : a.chr = chr
ArmOf(chr) == CHOOSE a \in SymbolArms : a.chr = chr

\* a Spanned<Token>
Token(kind, inner, span) == [kind |-> kind, inner |-> inner, span |-> span]

\* what one call of next() leaves: the iterator, the flag, and the item, None, or a panic
Yield(chars, stopped, item) ==
    [chars |-> chars, stopped |-> stopped, item |-> item, panics |-> FALSE, msg |-> "none"]
LexPanic(chars, stopped, msg) ==
    [chars |-> chars, stopped |-> stopped, item |-> None, panics |-> TRUE, msg |-> msg]

\* symbol!: peek at the next character and take it when it makes a two-character symbol
LexSymbol(source, chars, stopped, pos) ==
    LET arm == ArmOf(source[chars + 1])
        hasNext == chars + 2 <= Len(source)
        two == IF hasNext THEN { q \in arm.pairs : q[1] = source[chars + 2] } ELSE {}
    IN  IF two # {}
        THEN Yield(chars + 2, stopped,
                   Some(Token("Symbol", (CHOOSE q \in two : TRUE)[2],
                              NewInclusive(pos, ByteOffset(source, chars + 2)))))
        ELSE Yield(chars + 1, stopped, Some(Token("Symbol", arm.first, NewSingle(pos))))

\* the while let of the identifier arm: the index of the last character next_if takes
RECURSIVE IdentEnd(_, _)
IdentEnd(source, k) ==
    IF k + 1 <= Len(source) /\ (IsAlphanumeric(source[k + 1]) \/ source[k + 1] = "_")
    THEN IdentEnd(source, k + 1)
    ELSE k

\* the identifier arm: &self.source[start..=end] panics when end + 1 is inside a character
LexIdent(source, chars, stopped, pos) ==
    LET last == IdentEnd(source, chars + 1)
        end == IF last = chars + 1 THEN pos ELSE ByteOffset(source, last)
        text == SubSeq(source, chars + 1, last)
    IN  IF end + 1 # ByteOffset(source, last + 1)
        THEN LexPanic(last, stopped, "byte index is not a char boundary")
        ELSE Yield(last, stopped,
                   Some(Token(IF text \in Keywords THEN "Keyword" ELSE "Ident", text,
                              NewInclusive(pos, end))))

\* Iterator::next for RawLexer
RECURSIVE RawLexerNext(_, _, _)
RawLexerNext(source, chars, stopped) ==
    IF chars >= Len(source)
    THEN IF stopped
         THEN Yield(chars, stopped, None)
         ELSE Yield(chars, TRUE,
                    Some(Token("Error", "UnexpectedEof", NewSingle(ByteOffset(source, Len(source) + 1)))))
    ELSE LET chr == source[chars + 1]
             pos == ByteOffset(source, chars + 1)
         IN  CASE IsSymbolStart(chr) -> LexSymbol(source, chars, stopped, pos)
               [] IsWhitespace(chr) ->
                    LET inner == RawLexerNext(source, chars + 1, stopped)
                    IN  IF ~inner.panics /\ inner.item = None
                        THEN LexPanic(inner.chars, inner.stopped, "RawLexer did not return End reason!")
                        ELSE inner
               [] IsAlphabetic(chr) \/ chr = "_" -> LexIdent(source, chars, stopped, pos)
               [] OTHER -> Yield(chars + 1, TRUE, Some(Token("Error", "MalformedInput", NewSingle(pos))))

LexInit ==
    /\ LexIdle
    /\ regions = <<>> /\ allocators = <<>> /\ phase = "boot"
    /\ live = EmptyBag /\ vframes = EmptyBag /\ lastOp = NoOp
    /\ panic = NoPanic
    /\ SlabIdle /\ FsIdle /\ IrqIdle /\ HaltIdle /\ ModIdle /\ PollIdle /\ PageIdle /\ LockIdle
    /\ BigIdle /\ SysIdle /\ OrderIdle

\* RawLexer::new
RawLexerNew(source) ==
    /\ ~lex.made
    /\ lex' = [lex EXCEPT !.made = TRUE, !.source = source]
    /\ UNCHANGED <<physVars, panic, slabVars, fsVars, irqVars, haltVars, modVars, pollVars, spans, pageVars, lockVars, bigVars, sysVars, orderVars>>

\* one call of next() on the lexer
LexerNext ==
    /\ Running /\ lex.made /\ ~lex.done
    /\ LET r == RawLexerNext(lex.source, lex.chars, lex.stopped)
       IN  /\ lex' = [lex EXCEPT !.chars = r.chars, !.stopped = r.stopped,
                                 !.out = IF IsSome(r.item) THEN Append(@, Unwrap(r.item)) ELSE @,
                                 !.done = ~r.panics /\ r.item = None]
           /\ panic' = IF r.panics THEN Panic(r.msg, r.chars, 0) ELSE NoPanic
    /\ UNCHANGED <<physVars, slabVars, fsVars, irqVars, haltVars, modVars, pollVars, spans, pageVars, lockVars, bigVars, sysVars, orderVars>>

LexStep ==
    \/ \E source \in Sources : RawLexerNew(source)
    \/ LexerNext

SpecLex == LexInit /\ [][LexStep]_vars

\* C23: the lexer never panics, an Error token is the last item it yields, and when
\* next() has returned None the items end with that one Error token.
C23_LexerEndsWithOneError ==
    /\ Running
    /\ \A i \in 1..(Len(lex.out) - 1) : lex.out[i].kind # "Error"
    /\ lex.done => (lex.out # <<>> /\ lex.out[Len(lex.out)].kind = "Error")

-----------------------------------------------------------------------------
(* Live heap allocations and the slots of the slab elements *)

\* the size class a layout is served from
ClassOf(a) == SlabSize(SlabIndex(a.size))

\* the slab elements, of every size class, whose data frame holds the pointer:
\* <<class index, slab-element-slab, element>>
HoldersOf(ptr) ==
    { e \in UNION { { <<c, i, j>> : i \in 1..Len(slabs[c]), j \in 1..ELEMENTS_LEN } : c \in 0..7 } :
        /\ e[3] <= Len(slabs[e[1]][e[2]].elements)
        /\ slabs[e[1]][e[2]].elements[e[3]].data <= ptr
        /\ ptr < slabs[e[1]][e[2]].elements[e[3]].data + PAGE }

\* the allocation is a marked slot of one element of its own size class
InOneSlot(a) ==
    /\ Cardinality(HoldersOf(a.ptr)) = 1
    /\ \A e \in HoldersOf(a.ptr) :
          LET el == slabs[e[1]][e[2]].elements[e[3]]
          IN  /\ e[1] = SlabIndex(a.size)
              /\ (a.ptr - el.data) % ClassOf(a) = 0
              /\ ((a.ptr - el.data) \div ClassOf(a)) \in el.bitmap

Disjoint(a, b) == a.ptr + ClassOf(a) <= b.ptr \/ b.ptr + ClassOf(b) <= a.ptr

LiveSlotsDistinct ==
    /\ \A a \in heapLive : InOneSlot(a)
    /\ \A a \in heapLive : \A b \in heapLive \ {a} : Disjoint(a, b)

\* C24: two allocations that are live at the same time never overlap: each live pointer
\* is a marked slot [p, p + class size) of exactly one slab element's data frame, and
\* alloc never returns a slot that is still live.
C24_LiveAllocationsNeverOverlap ==
    /\ []LiveSlotsDistinct
    /\ [][(lastOp'.op = "alloc" /\ lastOp'.ret = "Some")
            => Cardinality(heapLive') = Cardinality(heapLive) + 1]_vars

\* an alloc has just returned, and two live allocations of one data frame have a slot
\* between them that a dealloc gave back
C24_Witness ==
    /\ lastOp.op = "alloc" /\ lastOp.ret = "Some"
    /\ \E a \in heapLive : \E b \in heapLive \ {a} :
          /\ HoldersOf(a.ptr) = HoldersOf(b.ptr)
          /\ a.size = 64 /\ b.ptr > a.ptr + 64
          /\ \A c \in heapLive : c.ptr # a.ptr + 64

-----------------------------------------------------------------------------
(* The bitmap of a single-region allocator and the frames of its region *)

\* the bits of the bitmap that are set
Ones(sra) == { k \in DOMAIN sra.bitmap : sra.bitmap[k] }

\* PhysFrameRange::len of SingleRegionPageFrameAllocator.frames
FramesOf(sra) == (sra.end - sra.start) \div PAGE

\* C25: each single-region allocator's bitmap holds exactly one bit per frame of its
\* region, also when the region's length is not a multiple of 8 frames, so that
\* size() - free() is 4 KiB times the number of frames whose bit is set.
C25_BitmapOneBitPerFrame ==
    \A i \in 1..Len(allocators) :
        /\ Cardinality(DOMAIN allocators[i].bitmap) = FramesOf(allocators[i])
        /\ SRASize(allocators[i]) - SRAFree(allocators[i]) = PAGE * Cardinality(Ones(allocators[i]))

-----------------------------------------------------------------------------
(* The regions PageFrameAllocator::new discards *)

\* C26: PageFrameAllocator::new returns without error, and no region that is not Usable
\* or has fewer than 8 whole frames after alignment, a region without any whole frame
\* included, gets an allocator.
C26_UnqualifiedRegionsDiscarded ==
    /\ Running
    /\ phase = "run" =>
          \A i \in DOMAIN regions : ~Qualifies(regions[i]) => i >= Len(allocators)

-----------------------------------------------------------------------------
(* The frames that hold a single-region allocator's header and bitmap *)

\* the machines with 128 MiB of main memory, and a machine with one small region
MainTables == { Table(<<RegionM, RegionR>>), Table(<<RegionR, RegionA>>) }

MainInit ==
    /\ \E t \in MainTables :
        /\ regions = PFANew(t).regions
        /\ allocators = PFANew(t).allocators
    /\ phase = "run"
    /\ live = EmptyBag
    /\ vframes = EmptyBag
    /\ lastOp = NoOp
    /\ panic = NoPanic
    /\ SlabIdle /\ FsIdle /\ IrqIdle
    /\ HaltIdle /\ ModIdle /\ PollIdle /\ LexIdle /\ PageIdle /\ LockIdle
    /\ BigIdle /\ SysIdle /\ OrderIdle

\* callers allocate frames and deallocate frames they were given
MainNext ==
    \/ AllocateFrame
    \/ \E f \in BagToSet(live) : DeallocateFrame(f)

SpecMain == MainInit /\ [][MainNext]_vars

\* the frames the header (48 bytes) and the bitmap (one byte per 8 bits) take
MetaFrames(sra) ==
    (SRA_HEADER_BYTES + Cardinality(DOMAIN sra.bitmap) \div 8 + PAGE - 1) \div PAGE

\* C27: the first ceil((header bytes + bitmap bytes) / 4096) frames of every region are
\* marked allocated and are held by no caller, while callers deallocate only frames
\* they were given.
C27_MetadataFramesNeverHandedOut ==
    \A i \in 1..Len(allocators) :
        \A k \in 0..(MetaFrames(allocators[i]) - 1) :
            /\ allocators[i].bitmap[k]
            /\ ~BagIn(allocators[i].start + k * PAGE, Owned)

\* an allocator whose header and bitmap take two frames has handed out the frame after
\* them, after a frame was given back
C27_Witness ==
    /\ \E i \in 1..Len(allocators) :
          /\ MetaFrames(allocators[i]) = 2
          /\ BagIn(allocators[i].start + 2 * PAGE, Owned)
          /\ ~BagIn(allocators[i].start + 3 * PAGE, Owned)
          /\ BagIn(allocators[i].start + 4 * PAGE, Owned)
    /\ lastOp.op = "allocate_frame" /\ lastOp.ret = "Some"

-----------------------------------------------------------------------------
(* The alignment of the pointers GlobalAlloc::alloc returns.  A pointer is its offset *)
(* in the physical-memory window; OFFSET = 0xffff800000000000 is a multiple of every   *)
(* alignment up to 2^47, so pointer and offset have the same remainders.               *)

\* valid layouts: the alignment is a power of two, smaller than, equal to or larger
\* than the size
Layouts ==
    { [size |-> 8, align |-> 8], [size |-> 8, align |-> 64],
      [size |-> 64, align |-> 16], [size |-> 64, align |-> 128] }

AlignNext ==
    \/ \E layout \in Layouts : Alloc(layout)
    \/ \E a \in heapLive : GDealloc(a)

SpecAlign == SlabInit /\ [][AlignNext]_vars

\* C28: the pointer GAlloc::alloc returns for a layout is a multiple of layout.align()
\* and designates at least layout.size() bytes.
C28_AllocHonoursLayout ==
    \A a \in heapLive :
        /\ a.ptr % a.align = 0
        /\ ClassOf(a) >= a.size

-----------------------------------------------------------------------------
(* mem::init: the assertions on the level-4 page table.  A virtual address is named by *)
(* the number of the 512 GiB slot it lies in (address >> 39); an entry of the table is *)
(* "unused" (all bits zero), "present" (PRESENT set) or "other" (non-zero, PRESENT     *)
(* clear).                                                                             *)

L4Entries == { "unused", "present", "other" }

\* the entries of the active table that are modelled
L4Indices == { 0, 42, 510, 511 }

\* (2^64 - HEAP_VIRT_SIZE) >> 39, the slot of HEAP_VIRT_BASE
HeapStartSlot == 2 ^ 25 - 1

\* (2^64 - 4096) >> 39, the slot of the last page of the address space
HeapEndSlot == 2 ^ 25 - 1

\* Page::p4_index
P4Index(slot) == slot % 512

\* entry.flags().intersects(PageTableFlags::PRESENT)
Present(entry) == entry = "present"

\* PageTableEntry::is_unused
IsUnused(entry) == entry = "unused"

\* iter().skip(start4).take(end4 - start4): the indices the iterator yields
SkipTake(start4, end4) == { i \in L4Indices : start4 <= i /\ i < start4 + (end4 - start4) }

PageInit ==
    /\ l4 \in [L4Indices -> L4Entries]
    /\ LexIdle
    /\ regions = <<>> /\ allocators = <<>> /\ phase = "boot"
    /\ live = EmptyBag /\ vframes = EmptyBag /\ lastOp = NoOp
    /\ panic = NoPanic
    /\ SlabIdle /\ FsIdle /\ IrqIdle /\ HaltIdle /\ ModIdle /\ PollIdle /\ LockIdle
    /\ BigIdle /\ SysIdle /\ OrderIdle

\* mem::init, the block holding VIRT_MAPPER: the heap-range assertion, then the
\* assertion on entry 42
HeapRangeAssert ==
    /\ Running
    /\ lastOp.op # "mem_init"
    /\ LET start4 == P4Index(HeapStartSlot)
           end4 == P4Index(HeapEndSlot)
       IN  IF ~(\A i \in SkipTake(start4, end4) : Present(l4[i]))
           THEN /\ panic' = Panic("Level 4 entry present in Kernel Heap!!!", 0, 0)
                /\ lastOp' = [op |-> "mem_init", arg |-> None, ret |-> "panic"]
           ELSE IF ~IsUnused(l4[42])
           THEN /\ panic' = Panic("assertion failed: mapper.level_4_table()[42].is_unused()", 0, 0)
                /\ lastOp' = [op |-> "mem_init", arg |-> None, ret |-> "panic"]
           ELSE /\ lastOp' = [op |-> "mem_init", arg |-> None, ret |-> "ok"]
                /\ UNCHANGED panic
    /\ UNCHANGED <<regions, allocators, phase, live, vframes, slabVars, fsVars, irqVars,
                   haltVars, modVars, pollVars, lexVars, pageVars, lockVars, bigVars, sysVars, orderVars>>

SpecPage == PageInit /\ [][HeapRangeAssert]_vars

\* the level-4 entries that cover the heap window [HEAP_VIRT_BASE, 2^64)
HeapWindow == P4Index(HeapStartSlot) .. P4Index(HeapEndSlot)

\* the heap-range assertion looked at every entry of the window
HeapWindowInspected == HeapWindow \subseteq SkipTake(P4Index(HeapStartSlot), P4Index(HeapEndSlot))

Passed == lastOp.op = "mem_init" /\ lastOp.ret = "ok"

\* init got past its assertions only with the window's entries satisfying the
\* predicate of the heap-range assertion
PassedMeansPresent == Passed => \A i \in HeapWindow : Present(l4[i])

\* the same, with a reserved entry being an unused one
PassedMeansUnused == Passed => \A i \in HeapWindow : IsUnused(l4[i])

\* C29: the heap-range assertion of mem::init inspects the level-4 entries that cover
\* the kernel heap window (entry 511), and init gets past it only when those entries
\* satisfy the assertion's predicate: a table whose window does not makes init panic.
C29_HeapWindowAssertedReserved ==
    lastOp.op = "mem_init" => HeapWindowInspected /\ PassedMeansPresent

-----------------------------------------------------------------------------
(* The timer interrupt against the locks of the code it preempts.  One CPU: while a   *)
(* handler is on it the interrupted code does not run, so a handler that waits for a  *)
(* mutex the interrupted code holds waits for ever.                                   *)

MaxLockTicks == 2

\* mutexes task-level code locks with interrupts enabled (the pfree!, map! and unmap!
\* macros, modules::register); PIC is private to interrupts.rs and is locked outside
\* the handler only in interrupts::init, before enable()
TaskLocks == { "PHYS_ALLOCATOR", "VIRT_MAPPER", "EXTRA_KERNEL_MODULES" }

\* task-level code: <mutex>.lock() on a free mutex
TaskLock(l) ==
    /\ CallerRuns
    /\ l \notin locks
    /\ locks' = locks \cup { l }
    /\ UNCHANGED <<taken, preempted>>
    /\ UNCHANGED <<physVars, panic, slabVars, fsVars, irqVars, haltVars, modVars, pollVars, lexVars, pageVars, bigVars, sysVars, orderVars>>

\* task-level code: the guard of a mutex it holds goes out of scope
TaskUnlock(l) ==
    /\ CallerRuns
    /\ l \in locks
    /\ locks' = locks \ { l }
    /\ UNCHANGED <<taken, preempted>>
    /\ UNCHANGED <<physVars, panic, slabVars, fsVars, irqVars, haltVars, modVars, pollVars, lexVars, pageVars, bigVars, sysVars, orderVars>>

\* the timer line raises vector 0x20 while the CPU accepts interrupts
TimerInterrupt(kernel) ==
    /\ ticks < MaxLockTicks
    /\ HandlerFunc(PIC_OFFSET + Timer, kernel)

\* the steps of the timer handler after its entry
HandlerSteps ==
    \/ Interrupt
    \/ TickLoad
    \/ TickAdd
    \/ TickCarryStep
    \/ TickNs
    \/ PicEndDrop

LockNext ==
    \/ InterruptsInit
    \/ \E l \in TaskLocks : TaskLock(l)
    \/ \E l \in TaskLocks : TaskUnlock(l)
    \/ \E kernel \in BOOLEAN : TimerInterrupt(kernel)
    \/ HandlerSteps

SpecLock == IrqInit /\ [][LockNext]_vars

\* the CPU goes on executing the handler it has entered
SpecLockLive == SpecLock /\ WF_vars(HandlerSteps)

InHandler == pic.pc # "idle"

\* the handler has acquired no mutex but PIC
NoOtherLock == taken \subseteq { "PIC" }

\* the handler is not waiting for a locked mutex
NeverSpins == pic.pc # "spin"

\* outside the handler, in particular once it has returned, PIC is unlocked
PicFreeOnReturn == ~InHandler => "PIC" \notin locks

\* a step of the handler changes the time atomics, the PIC (its mutex and command
\* ports) and the handler's own position, nothing else
OnlyTimeAtomics ==
    (InHandler \/ InHandler') =>
        /\ UNCHANGED <<regions, allocators, phase, live, vframes, slabVars, fsVars,
                       haltVars, modVars, pollVars, lexVars, pageVars, PS_TICK_STEP, enabled>>
        /\ locks' \ { "PIC" } = locks \ { "PIC" }

\* C30: a timer interrupt that preempts task-level code once interrupts are enabled
\* acquires no mutex other than PIC, changes only the time atomics besides, never
\* waits for a locked mutex and so runs to its return, and leaves PIC unlocked.
C30_TimerHandlerTakesOnlyPicLock ==
    /\ [](NoOtherLock /\ NeverSpins /\ PicFreeOnReturn /\ Running)
    /\ [][OnlyTimeAtomics]_vars
    /\ (InHandler ~> ~InHandler)

\* a timer interrupt preempted code that held every task-level mutex, and has returned
C30_Witness ==
    /\ ~InHandler
    /\ ticks >= 1
    /\ preempted = TaskLocks \cup LocksAfterInit
    /\ taken = { "PIC" }
    /\ eoi = { FIRST_COMMAND }

-----------------------------------------------------------------------------
(* The order in which allocate_frame hands out frames *)

\* the lowest index of a clear bit of the bitmap, None when every bit is set
LowestClear(sra) == FirstZeroFrom(sra.bitmap, 0)

\* the regions, in order, that have a clear bit
WithClear(allocs) == { i \in 1..Len(allocs) : IsSome(LowestClear(allocs[i])) }

\* the hint of every region indexes its lowest clear bit, None exactly when it is full
HintIsLowestClear ==
    \A i \in 1..Len(allocators) : allocators[i].next_free = LowestClear(allocators[i])

\* an allocate_frame that returned a frame took the lowest clear bit of the first region
\* that had one, and the hint of that region moved above it (or to None)
AllocatesLowestClear ==
    (lastOp'.op = "allocate_frame" /\ lastOp'.ret = "Some") =>
        /\ WithClear(allocators) # {}
        /\ LET i == Min(WithClear(allocators))
               k == Unwrap(LowestClear(allocators[i]))
               f == allocators[i].start + PAGE * k
           IN  /\ live' = live (+) SetToBag({f})
               /\ allocators'[i].bitmap = [allocators[i].bitmap EXCEPT ![k] = TRUE]
               /\ \A j \in 1..Len(allocators) : j # i => allocators'[j] = allocators[j]
               /\ IsSome(allocators'[i].next_free) => Unwrap(allocators'[i].next_free) > k

\* an allocate_frame that returned None found no clear bit in any region
NoneOnlyWhenFull ==
    (lastOp'.op = "allocate_frame" /\ lastOp'.ret = "None") => WithClear(allocators) = {}

\* C31: allocate_frame returns the frame at the lowest clear bit of the first region, in
\* region order, that has a clear bit, and None only when no region has one; every
\* region's hint indexes its lowest clear bit, so allocations that follow one another
\* in a region return increasing bit indices.
C31_AllocateFrameLowestClearFirst ==
    /\ []HintIsLowestClear
    /\ [][AllocatesLowestClear /\ NoneOnlyWhenFull]_vars

\* the first region is full and allocate_frame has handed out a frame of the second one
C31_Witness ==
    /\ lastOp.op = "allocate_frame" /\ lastOp.ret = "Some"
    /\ Len(allocators) >= 2
    /\ allocators[1].next_free = None
    /\ \E f \in BagToSet(live) : allocators[2].start <= f /\ f < allocators[2].end

-----------------------------------------------------------------------------
(* The big heap: KAlloc::allocate_big and KAlloc::map_block.  Sizes and addresses are *)
(* in KiB; an address is its offset from HEAP_VIRT_BASE = 2^64 - HEAP_VIRT_SIZE, so   *)
(* the offset HEAP_VIRT_KIB is the address 0 that wrapping_add wraps to.  Heap is the *)
(* linked-list allocator of an external crate, taken by its contract: first fit by    *)
(* address over the bytes below its top.                                              *)

MaxBigLive == 1

\* HEAP_VIRT_SIZE, HEAP_BLOCK_SIZE and Size4KiB::SIZE in KiB
HEAP_VIRT_KIB == 1048576
HEAP_BLOCK_KIB == 1024
PAGE_KIB == 4

\* the pages of a block: Page::range(new_bottom, new_top)
BlockPages == HEAP_BLOCK_KIB \div PAGE_KIB

\* the layouts asked of the big heap: 8 KiB, 1.5 MiB, 1023 MiB and 1 GiB
BigLayouts ==
    { [size |-> 8, align |-> 1], [size |-> 1536, align |-> 4],
      [size |-> 1023 * 1024, align |-> 1], [size |-> 1024 * 1024, align |-> 1] }

\* the frames PHYS_ALLOCATOR can hand out: a machine of some 2 MiB and one above 1 GiB
PhysFrames == { 600, 270000 }

AlignTo(addr, align) == ((addr + align - 1) \div align) * align

\* Heap::allocate_first_fit: the lowest aligned address at which the layout fits
\* between the live allocations and below the top, None for Err
FirstFit(b, layout) ==
    LET starts == { AlignTo(c, layout.align) : c \in {0} \cup { a.ptr + a.size : a \in b.used } }
        fits == { c \in starts :
                    /\ c + layout.size <= b.size
                    /\ \A a \in b.used : c + layout.size <= a.ptr \/ a.ptr + a.size <= c }
    IN  IF fits = {} THEN None ELSE Some(Min(fits))

\* Mapper::map_to: the page-table frames the first page of a block takes from the frame
\* allocator, a level-1 table for every 2 MiB
TableFrames(new_bottom) == IF new_bottom % (2 * HEAP_BLOCK_KIB) = 0 THEN 1 ELSE 0

\* map_block without the assertion on new_top
M_MapBlock_NoNullAssert(b, new_bottom) ==
    LET need == BlockPages + TableFrames(new_bottom)
        left == b.phys - b.frames
    IN  IF left < need
        THEN [big |-> [b EXCEPT !.mapped = Append(@, [block |-> new_bottom, first |-> b.frames,
                                                      pages |-> Max({0, left - TableFrames(new_bottom)})]),
                                !.frames = b.phys],
              panic |-> Panic("Physical OOM!!!", 0, 0)]
        ELSE [big |-> [b EXCEPT !.mapped = Append(@, [block |-> new_bottom, first |-> b.frames,
                                                      pages |-> BlockPages]),
                                !.frames = @ + need],
              panic |-> NoPanic]

\* KAlloc::map_block(new_bottom): [big, panic].  palloc_loop takes a frame for every
\* page of the block and panics when the allocator has none left.
MapBlock(b, new_bottom) ==
    LET new_top == new_bottom + HEAP_BLOCK_KIB
        need == BlockPages + TableFrames(new_bottom)
        left == b.phys - b.frames
    IN  IF new_top = HEAP_VIRT_KIB
        THEN [big |-> b, panic |-> Panic("Kernel Big Heap OOM!!!", 0, 0)]
        ELSE IF left < need
        THEN [big |-> [b EXCEPT !.mapped = Append(@, [block |-> new_bottom, first |-> b.frames,
                                                      pages |-> Max({0, left - TableFrames(new_bottom)})]),
                                !.frames = b.phys],
              panic |-> Panic("Physical OOM!!!", 0, 0)]
        ELSE [big |-> [b EXCEPT !.mapped = Append(@, [block |-> new_bottom, first |-> b.frames,
                                                      pages |-> BlockPages]),
                                !.frames = @ + need],
              panic |-> NoPanic]

\* one turn of the loop of allocate_big for the layout: the first fit, and on Err
\* map_block above the top and Heap::extend.  [big, ret, panic]
AllocateBigTurn(b, layout) ==
    LET res == FirstFit(b, layout)
    IN  IF IsSome(res)
        THEN [big |-> [b EXCEPT !.used = @ \cup { [ptr |-> Unwrap(res), size |-> layout.size] }],
              ret |-> res, panic |-> NoPanic]
        ELSE LET m == MapBlock(b, b.size)
             IN  IF m.panic # NoPanic
                 THEN [big |-> m.big, ret |-> None, panic |-> m.panic]
                 ELSE [big |-> [m.big EXCEPT !.size = @ + HEAP_BLOCK_KIB], ret |-> None, panic |-> NoPanic]

\* KAlloc::new on a machine with phys frames: map_block(HEAP_VIRT_BASE), Heap::new
KAllocNewBig(phys) ==
    LET m == MapBlock([size |-> 0, used |-> {}, mapped |-> <<>>, frames |-> 0, phys |-> phys,
                       req |-> None], 0)
    IN  [m.big EXCEPT !.size = HEAP_BLOCK_KIB]

BigInit ==
    /\ \E phys \in PhysFrames : big = KAllocNewBig(phys)
    /\ LexIdle /\ PageIdle /\ LockIdle /\ SysIdle /\ OrderIdle
    /\ regions = <<>> /\ allocators = <<>> /\ phase = "boot"
    /\ live = EmptyBag /\ vframes = EmptyBag /\ lastOp = NoOp
    /\ panic = NoPanic
    /\ SlabIdle /\ FsIdle /\ IrqIdle /\ HaltIdle /\ ModIdle /\ PollIdle

\* GlobalAlloc::alloc for a layout above 4096 bytes enters allocate_big(layout)
AllocateBig(layout) ==
    /\ Running
    /\ big.req = None
    /\ Cardinality(big.used) < MaxBigLive
    /\ big' = [big EXCEPT !.req = Some(layout)]
    /\ lastOp' = [op |-> "allocate_big", arg |-> Some(layout), ret |-> "enter"]
    /\ UNCHANGED <<regions, allocators, phase, live, vframes, panic, slabVars, fsVars, irqVars, haltVars,
                   modVars, pollVars, lexVars, pageVars, lockVars, sysVars, orderVars>>

\* allocate_big, one turn of its loop; it returns on the first fit
AllocateBigStep ==
    /\ Running
    /\ IsSome(big.req)
    /\ LET r == AllocateBigTurn(big, Unwrap(big.req))
           over == IsSome(r.ret) \/ r.panic # NoPanic
       IN  /\ big' = [r.big EXCEPT !.req = IF over THEN None ELSE @]
           /\ panic' = r.panic
           /\ lastOp' = [op |-> "allocate_big_turn", arg |-> r.ret,
                         ret |-> IF IsSome(r.ret) THEN "fit"
                                 ELSE IF r.panic # NoPanic THEN "panic" ELSE "extend"]
    /\ UNCHANGED <<regions, allocators, phase, live, vframes, slabVars, fsVars, irqVars, haltVars,
                   modVars, pollVars, lexVars, pageVars, lockVars, sysVars, orderVars>>

\* GlobalAlloc::dealloc for a layout above 4096 bytes: deallocate_big(ptr, layout)
DeallocateBig(a) ==
    /\ Running
    /\ big.req = None
    /\ a \in big.used
    /\ big' = [big EXCEPT !.used = @ \ { a }]
    /\ lastOp' = [op |-> "deallocate_big", arg |-> Some(a.ptr), ret |-> "ok"]
    /\ UNCHANGED <<regions, allocators, phase, live, vframes, panic, slabVars, fsVars, irqVars, haltVars,
                   modVars, pollVars, lexVars, pageVars, lockVars, sysVars, orderVars>>

BigNext ==
    \/ \E layout \in BigLayouts : AllocateBig(layout)
    \/ AllocateBigStep
    \/ \E a \in big.used : DeallocateBig(a)

SpecBig == BigInit /\ [][BigNext]_vars

\* a call of allocate_big keeps running until it returns or panics
SpecBigLive == SpecBig /\ WF_vars(AllocateBigStep)

\* every block of the heap lies inside the window that ends at address 0
HeapInWindow ==
    /\ big.size <= HEAP_VIRT_KIB
    /\ \A i \in 1..Len(big.mapped) :
            big.mapped[i].block >= 0 /\ big.mapped[i].block + HEAP_BLOCK_KIB <= HEAP_VIRT_KIB

\* the blocks are stacked: each one starts where the one before it ends, and the heap
\* ends where the last whole block ends
BlocksStacked ==
    /\ \A i \in 1..Len(big.mapped) : big.mapped[i].block = (i - 1) * HEAP_BLOCK_KIB
    /\ Running => big.size = Len(big.mapped) * HEAP_BLOCK_KIB

\* every page of a block of the heap has a frame, and no frame is under two pages
FreshFrames ==
    /\ \A i \in 1..Len(big.mapped) :
            /\ (Running \/ i < Len(big.mapped)) => big.mapped[i].pages = BlockPages
            /\ big.mapped[i].first + big.mapped[i].pages <= big.frames
            /\ i > 1 => big.mapped[i - 1].first + big.mapped[i - 1].pages <= big.mapped[i].first
    /\ big.frames <= big.phys

\* a turn extends the heap only when the first fit failed, by one block at the old top;
\* a turn whose block would end at address 0 panics instead
TurnExtendsOrPanics ==
    lastOp'.op = "allocate_big_turn" =>
        LET failed == FirstFit(big, Unwrap(big.req)) = None
        IN  /\ lastOp'.ret = "fit" <=> ~failed
            /\ lastOp'.ret = "fit" =>
                    /\ big'.size = big.size /\ big'.mapped = big.mapped
                    /\ \E a \in big'.used \ big.used :
                            /\ a.ptr = Unwrap(lastOp'.arg) /\ a.size = Unwrap(big.req).size
                            /\ a.ptr % Unwrap(big.req).align = 0
                            /\ a.ptr + a.size <= big'.size
                            /\ \A o \in big.used : a.ptr + a.size <= o.ptr \/ o.ptr + o.size <= a.ptr
            /\ lastOp'.ret = "extend" =>
                    /\ big'.size = big.size + HEAP_BLOCK_KIB
                    /\ Len(big'.mapped) = Len(big.mapped) + 1
                    /\ big'.mapped[Len(big'.mapped)].block = big.size
                    /\ big'.used = big.used
            /\ lastOp'.ret = "panic" =>
                    /\ panic'.msg \in { "Kernel Big Heap OOM!!!", "Physical OOM!!!" }
                    /\ big'.size = big.size
            /\ (failed /\ big.size + HEAP_BLOCK_KIB = HEAP_VIRT_KIB) =>
                    panic'.msg = "Kernel Big Heap OOM!!!"

\* C32: when the first fit fails allocate_big extends the heap by one block right above
\* its top, every page of the block on a frame of its own, and tries again until the
\* layout fits; the heap stays inside the 1 GiB window that ends at address 0, a block
\* that would end at address 0 panics with the heap out of memory, and every call ends
\* with a pointer or a panic.
C32_BigHeapGrowsInsideWindow ==
    /\ [](HeapInWindow /\ BlocksStacked /\ FreshFrames)
    /\ [][TurnExtendsOrPanics]_vars
    /\ (IsSome(big.req) ~> (big.req = None))

\* the heap has grown to its last block and the 1023 MiB layout was given a pointer
C32_Witness ==
    /\ lastOp.op = "allocate_big_turn" /\ lastOp.ret = "fit"
    /\ big.size = HEAP_VIRT_KIB - HEAP_BLOCK_KIB
    /\ \E a \in big.used : a.size = 1023 * 1024

\* the heap is at its last block and a call has panicked with the heap out of memory
C32_WitnessOOM ==
    /\ lastOp.op = "allocate_big_turn" /\ lastOp.ret = "panic"
    /\ panic.msg = "Kernel Big Heap OOM!!!"
    /\ big.size = HEAP_VIRT_KIB - HEAP_BLOCK_KIB

-----------------------------------------------------------------------------
(* C33: the emergency print path and the locks of the print paths. *)

\* no activation of kernel_panic waits for a lock
PanicNeverSpins == \A k \in 1..Len(entries) : entries[k].pc # "spin"

\* the first two activations that have reached the halt loop have put their message out
\* on the serial port and on the framebuffer
PanicPrinted ==
    \A k \in 1..Len(entries) :
        (entries[k].pc = "hlt" /\ k <= 2) =>
            \E i \in PrintedBy(k) : printed[i].put = { "serial", "framebuffer" }

\* emergency_print leaves none of the print locks held
PrintLeavesLocksFree ==
    (AtTop("hlt") /\ PrintedBy(Len(entries)) # {}) => locks \cap PrintLocks = {}

-----------------------------------------------------------------------------
(* System calls: kernel/src/syscalls.rs.  syscall_entry is modelled instruction by     *)
(* instruction on the registers, RFLAGS, the GS base and the kernel stack; the handler *)
(* and the timer interrupt are steps between its instructions.                         *)

\* descriptors.rs: SegmentSelector::new(index, rpl) is index * 8 + rpl
KCS == 8
KDS == 16
UDS == 27
UCS == 35

\* RFlags::INTERRUPT_FLAG, RFlags::DIRECTION_FLAG
INTERRUPT_FLAG == 512
DIRECTION_FLAG == 1024

\* a mask that leaves the interrupt flag to the user's RFLAGS
M_SFMask_DirectionOnly == DIRECTION_FLAG

\* syscalls::init: SFMask::write(RFlags::INTERRUPT_FLAG | RFlags::DIRECTION_FLAG)
SFMask == INTERRUPT_FLAG + DIRECTION_FLAG

HasFlag(x, b) == (x \div b) % 2
ClearBits(x, mask) ==
    x - INTERRUPT_FLAG * HasFlag(x, INTERRUPT_FLAG) * HasFlag(mask, INTERRUPT_FLAG)
      - DIRECTION_FLAG * HasFlag(x, DIRECTION_FLAG) * HasFlag(mask, DIRECTION_FLAG)
SetBit(x, b) == x + b * (1 - HasFlag(x, b))
InterruptsOn(c) == HasFlag(c.rflags, INTERRUPT_FLAG) = 1

\* GSVars::init: the kernel stack top is &STACK + STACK_SIZE; STACK is a static byte array
\* (alignment 1) and STACK_SIZE is a multiple of 16, so the top has any residue
KernelStackTops == { 204800, 204808, 204801, 204815 }

\* what user code has in its registers when it executes SYSCALL
UserStates ==
    { [rax |-> 1, rdi |-> 11, rsi |-> 12, rdx |-> 13, r10 |-> 14, r8 |-> 15, r9 |-> 16,
       rbp |-> 17, rcx |-> 18, r11 |-> 19, rsp |-> 0, rip |-> 4096, rflags |-> 514],
      [rax |-> 65538, rdi |-> 21, rsi |-> 22, rdx |-> 23, r10 |-> 24, r8 |-> 25, r9 |-> 26,
       rbp |-> 7012, rcx |-> 28, r11 |-> 29, rsp |-> 7004, rip |-> 4103, rflags |-> 1538] }

\* what the handler's compiled body can leave in a caller-saved register
Clobbers == { 0, 57005 }

I(op, reg, imm) == [op |-> op, reg |-> reg, imm |-> imm]

\* the instructions of syscall_entry up to the call of the handler, lines 78-111
SyscallEntrySave ==
    << I("swapgs", "", 0), I("store_scratch", "rsp", 0), I("load_kernel_stack", "rsp", 0),
       I("push_imm", "", UDS), I("push_scratch", "", 0), I("swapgs", "", 0),
       I("push", "r11", 0), I("push_imm", "", UCS), I("push", "rcx", 0),
       I("push", "rcx", 0), I("push", "rdx", 0), I("push", "rdi", 0), I("push", "rsi", 0),
       I("push", "r8", 0), I("push", "r9", 0), I("push", "r10", 0), I("push", "r11", 0),
       I("push_imm", "", 0), I("push", "rdx", 0), I("mov_imm", "r11", 0),
       I("push", "rbp", 0), I("mov_rbp_rsp", "", 0), I("and_rsp", "", 16),
       I("push", "rax", 0), I("push", "r9", 0), I("push", "r8", 0), I("push", "r10", 0),
       I("push", "rdx", 0), I("push", "rsi", 0), I("push", "rdi", 0),
       I("mov_ax", "rax", KDS), I("mov_ds_ax", "", 0), I("lea_handler", "rax", 0),
       I("call", "rax", 0) >>

\* the instructions after the call, lines 112-125
SyscallEntryRestore ==
    << I("add_rsp", "", 56), I("mov_rsp_rbp", "", 0),
       I("pop", "rbp", 0), I("pop", "rdx", 0), I("pop", "rcx", 0), I("pop", "r11", 0),
       I("pop", "r10", 0), I("pop", "r9", 0), I("pop", "r8", 0), I("pop", "rsi", 0),
       I("pop", "rdi", 0), I("pop", "rdx", 0), I("pop", "rcx", 0),
       I("iretq", "", 0) >>

\* syscall_entry without mov rsp, rbp after the call
M_SyscallEntry_NoMovRspRbp ==
    SyscallEntrySave \o <<SyscallEntryRestore[1]>> \o Tail(Tail(SyscallEntryRestore))

\* syscall_entry, lines 78-125
SyscallEntry == SyscallEntrySave \o SyscallEntryRestore

\* the address lea puts in rax: syscall_handler
HandlerAddress == 1048576

\* the stack is the static STACK, which starts out zeroed
Load(c, addr) == IF addr \in DOMAIN c.mem THEN c.mem[addr] ELSE 0
Store(c, addr, v) ==
    [a \in DOMAIN c.mem \cup { addr } |-> IF a = addr THEN v ELSE c.mem[a]]
Push(c, v) == [c EXCEPT !.r["rsp"] = @ - 8, !.mem = Store(c, c.r["rsp"] - 8, v)]
Pop(c, reg) == [c EXCEPT !.r = [@ EXCEPT ![reg] = Load(c, c.r["rsp"]), !["rsp"] = c.r["rsp"] + 8]]

\* one instruction of syscall_entry on the CPU c; a GS-relative access needs the kernel
\* GS base that swapgs brings in
Execute(c, ins) ==
    LET n == [c EXCEPT !.ip = @ + 1]
    IN  CASE ins.op = "swapgs" -> [n EXCEPT !.kgs = ~@]
          [] ins.op = "store_scratch" ->
                IF c.kgs THEN [n EXCEPT !.scratch = c.r["rsp"]] ELSE [c EXCEPT !.pc = "fault"]
          [] ins.op = "load_kernel_stack" ->
                IF c.kgs THEN [n EXCEPT !.r["rsp"] = c.kernel_stack] ELSE [c EXCEPT !.pc = "fault"]
          [] ins.op = "push_scratch" ->
                IF c.kgs THEN Push(n, c.scratch) ELSE [c EXCEPT !.pc = "fault"]
          [] ins.op = "push_imm" -> Push(n, ins.imm)
          [] ins.op = "push" -> Push(n, c.r[ins.reg])
          [] ins.op = "pop" -> Pop(n, ins.reg)
          [] ins.op = "mov_imm" -> [n EXCEPT !.r[ins.reg] = ins.imm]
          [] ins.op = "mov_ax" -> [n EXCEPT !.r["rax"] = (@ \div 65536) * 65536 + ins.imm]
          [] ins.op = "mov_ds_ax" -> [n EXCEPT !.ds = c.r["rax"] % 65536]
          [] ins.op = "mov_rbp_rsp" -> [n EXCEPT !.r["rbp"] = c.r["rsp"]]
          [] ins.op = "mov_rsp_rbp" -> [n EXCEPT !.r["rsp"] = c.r["rbp"]]
          [] ins.op = "and_rsp" -> [n EXCEPT !.r["rsp"] = @ - (@ % ins.imm)]
          [] ins.op = "add_rsp" -> [n EXCEPT !.r["rsp"] = @ + ins.imm]
          [] ins.op = "lea_handler" -> [n EXCEPT !.r["rax"] = HandlerAddress]
          [] ins.op = "call" ->
                [Push(c, c.ip + 1) EXCEPT !.pc = "handler", !.ip = 1]
          [] ins.op = "iretq" ->
                LET sp == c.r["rsp"]
                IN  [c EXCEPT !.pc = "user", !.ip = 0, !.rip = Load(c, sp), !.cs = Load(c, sp + 8),
                              !.rflags = Load(c, sp + 16), !.r["rsp"] = Load(c, sp + 24),
                              !.ss = Load(c, sp + 32)]

\* user code after syscalls::init, with the kernel stack top at top
SysInit ==
    /\ \E top \in KernelStackTops, u \in UserStates :
          cpu = [pc |-> "user", ip |-> 0,
                 r |-> [rax |-> u.rax, rdi |-> u.rdi, rsi |-> u.rsi, rdx |-> u.rdx, r10 |-> u.r10,
                        r8 |-> u.r8, r9 |-> u.r9, rbp |-> u.rbp, rcx |-> u.rcx, r11 |-> u.r11,
                        rsp |-> u.rsp],
                 rip |-> u.rip, rflags |-> u.rflags, cs |-> UCS, ss |-> UDS, ds |-> UDS,
                 kgs |-> FALSE, scratch |-> 0, kernel_stack |-> top,
                 mem |-> [a \in {} |-> 0], ret |-> 0,
                 entry |-> [a \in {} |-> 0], irqs |-> {}]
    /\ LexIdle /\ PageIdle /\ LockIdle /\ BigIdle /\ OrderIdle
    /\ regions = <<>> /\ allocators = <<>> /\ phase = "boot"
    /\ live = EmptyBag /\ vframes = EmptyBag /\ lastOp = NoOp
    /\ panic = NoPanic
    /\ SlabIdle /\ FsIdle /\ IrqIdle /\ HaltIdle /\ ModIdle /\ PollIdle

SysUnchanged ==
    UNCHANGED <<physVars, panic, slabVars, fsVars, irqVars, haltVars, modVars, pollVars, lexVars,
                pageVars, lockVars, bigVars, orderVars>>

\* user code in the state u executes SYSCALL: RCX takes RIP, R11 takes RFLAGS, RFLAGS loses the bits
\* of SFMask, and the CPU enters syscall_entry with the kernel code and stack segments
Syscall(u) ==
    /\ cpu.pc = "user"
    /\ LET r == [rax |-> u.rax, rdi |-> u.rdi, rsi |-> u.rsi, rdx |-> u.rdx, r10 |-> u.r10,
                 r8 |-> u.r8, r9 |-> u.r9, rbp |-> u.rbp, rcx |-> u.rip + 2, r11 |-> u.rflags,
                 rsp |-> u.rsp]
       IN  cpu' = [cpu EXCEPT !.pc = "entry", !.ip = 1, !.r = r, !.entry = r,
                             !.rflags = ClearBits(u.rflags, SFMask), !.cs = KCS, !.ss = KDS,
                             !.irqs = {}]
    /\ SysUnchanged

\* syscall_entry executes its next instruction
EntryStep ==
    /\ cpu.pc = "entry"
    /\ cpu' = Execute(cpu, SyscallEntry[cpu.ip])
    /\ SysUnchanged

\* syscall_handler: enable(), debug!, disable(), return 0
SyscallHandler ==
    /\ cpu.pc = "handler"
    /\ \E junk \in Clobbers :
          cpu' = CASE cpu.ip = 1 -> [cpu EXCEPT !.ip = 2, !.rflags = SetBit(@, INTERRUPT_FLAG)]
                   [] cpu.ip = 2 -> [cpu EXCEPT !.ip = 3]
                   [] cpu.ip = 3 -> [cpu EXCEPT !.ip = 4, !.rflags = ClearBits(@, INTERRUPT_FLAG)]
                   [] cpu.ip = 4 ->
                        [cpu EXCEPT !.pc = "entry", !.ip = Load(cpu, cpu.r["rsp"]), !.ret = 0,
                                    !.r = [@ EXCEPT !["rax"] = 0, !["rsp"] = cpu.r["rsp"] + 8,
                                                    !["rcx"] = junk, !["rdx"] = junk,
                                                    !["rsi"] = junk, !["rdi"] = junk,
                                                    !["r8"] = junk, !["r9"] = junk,
                                                    !["r10"] = junk, !["r11"] = junk]]
    /\ SysUnchanged

\* the timer interrupt is taken where RFLAGS has the interrupt flag; its handler
\* returns to the same place with the registers it found
SysTimerIrq ==
    /\ cpu.pc \in { "user", "entry", "handler" }
    /\ InterruptsOn(cpu)
    /\ <<cpu.pc, cpu.ip>> \notin cpu.irqs
    /\ cpu' = [cpu EXCEPT !.irqs = @ \cup { <<cpu.pc, cpu.ip>> }]
    /\ SysUnchanged

SysNext ==
    \/ \E u \in UserStates : Syscall(u)
    \/ EntryStep
    \/ SyscallHandler
    \/ SysTimerIrq

SpecSys == SysInit /\ [][SysNext]_vars
SpecSysLive == SpecSys /\ WF_vars(EntryStep) /\ WF_vars(SyscallHandler)

\* syscall_entry is about to execute the instruction op
AtEntry(op) == cpu.pc = "entry" /\ SyscallEntry[cpu.ip].op = op

\* the registers the trampoline gives back to the user
Preserved == { "rdi", "rsi", "rdx", "r10", "r8", "r9", "rbp" }

\* at iretq the stack pointer is at the five-word frame pushed first, which names the
\* user's RIP, code segment, RFLAGS, RSP and stack segment
FrameAtIretq ==
    AtEntry("iretq") =>
        LET sp == cpu.r["rsp"]
        IN  /\ sp = cpu.kernel_stack - 40
            /\ Load(cpu, sp) = cpu.entry["rcx"]
            /\ Load(cpu, sp + 8) = UCS
            /\ Load(cpu, sp + 16) = cpu.entry["r11"]
            /\ Load(cpu, sp + 24) = cpu.entry["rsp"]
            /\ Load(cpu, sp + 32) = UDS

\* at iretq RAX is what the handler returned and the preserved registers have their
\* values of the entry
RegistersAtIretq ==
    AtEntry("iretq") =>
        /\ cpu.r["rax"] = cpu.ret
        /\ \A reg \in Preserved : cpu.r[reg] = cpu.entry[reg]

\* back in user code the CPU has the user's context
UserContextAfterIretq ==
    (cpu.pc = "user" /\ DOMAIN cpu.entry # {}) =>
        /\ cpu.rip = cpu.entry["rcx"] /\ cpu.rflags = cpu.entry["r11"]
        /\ cpu.r["rsp"] = cpu.entry["rsp"] /\ cpu.cs = UCS /\ cpu.ss = UDS
        /\ cpu.r["rax"] = cpu.ret
        /\ \A reg \in Preserved : cpu.r[reg] = cpu.entry[reg]

\* C34: the trampoline restores the user context: at iretq the stack pointer is exactly at
\* the frame built at entry, which returns to RIP = RCX of the entry, RFLAGS = R11 of the
\* entry, the user's RSP, CS = UCS and SS = UDS; RAX is the handler's return value and
\* RDI, RSI, RDX, R10, R8, R9 and RBP have their values of the entry.
C34_TrampolineRestoresUserContext ==
    FrameAtIretq /\ RegistersAtIretq /\ UserContextAfterIretq

\* a system call from the second user state on a kernel stack whose top is not a
\* multiple of 16 is at its iretq, the handler having clobbered its registers
C34_Witness ==
    /\ AtEntry("iretq")
    /\ cpu.kernel_stack % 16 = 8
    /\ cpu.entry["rax"] = 65538
    /\ cpu.r["r11"] = cpu.entry["r11"] /\ cpu.entry["r11"] = 1538

\* interrupts are off in syscall_entry and in the handler before enable() and after
\* disable()
MaskedOutsideBody ==
    /\ cpu.pc = "entry" => ~InterruptsOn(cpu)
    /\ (cpu.pc = "handler" /\ cpu.ip \in { 1, 4 }) => ~InterruptsOn(cpu)

\* a timer interrupt of a system call was taken in the handler's body, or in user code
IrqOnlyInBody ==
    \A at \in cpu.irqs : at[1] = "user" \/ (at[1] = "handler" /\ at[2] \in { 2, 3 })

\* C35: interrupts are masked from the SYSCALL entry until the handler unmasks them, are
\* masked again before the handler returns and stay masked until iretq, so a timer
\* interrupt is taken only inside the handler's body.
C35_InterruptsOnlyInHandlerBody == MaskedOutsideBody /\ IrqOnlyInBody

\* a system call took a timer interrupt in the handler's body and is at its iretq
C35_Witness == AtEntry("iretq") /\ <<"handler", 2>> \in cpu.irqs

\* C40: at the call instruction that enters syscall_handler the stack pointer is a
\* multiple of 16, whatever the kernel stack top and the user state.
C40_StackAlignedAtCall == AtEntry("call") => cpu.r["rsp"] % 16 = 0

-----------------------------------------------------------------------------
(* Lexer: compiler/src/lexer.rs, lines 392-445: a Peekable<RawLexer> and the error it *)
(* ended with.  lex.peeked is the item Peekable holds, lex.res what next() and peek()  *)
(* have returned.                                                                      *)

MaxResults == 5

\* Peekable::next and Peekable::peek on the RawLexer: the item peeked before, or the
\* next item of the RawLexer
PeekableNext(l) ==
    IF IsSome(l.peeked)
    THEN Yield(l.chars, l.stopped, Unwrap(l.peeked))
    ELSE RawLexerNext(l.source, l.chars, l.stopped)

\* the match of Lexer::next and Lexer::peek on the item: [ret, end_error, panics, msg]
LexerMatch(item) ==
    IF item = None
    THEN [ret |-> None, end_error |-> None, panics |-> TRUE,
          msg |-> "RawLexer did not return End reason!"]
    ELSE IF Unwrap(item).kind = "Error"
    THEN [ret |-> Some([ok |-> FALSE, token |-> Unwrap(item)]), end_error |-> item,
          panics |-> FALSE, msg |-> "none"]
    ELSE [ret |-> Some([ok |-> TRUE, token |-> Unwrap(item)]), end_error |-> None,
          panics |-> FALSE, msg |-> "none"]

\* Lexer::next (peek = FALSE) and Lexer::peek (peek = TRUE)
LexerCall(peek) ==
    /\ Running /\ lex.made
    /\ Len(lex.res) < MaxResults
    /\ IF IsSome(lex.end_error)
       THEN /\ lex' = [lex EXCEPT !.res = Append(@, [ok |-> FALSE, token |-> Unwrap(lex.end_error)])]
            /\ UNCHANGED panic
       ELSE LET r == PeekableNext(lex)
                m == LexerMatch(r.item)
            IN  IF r.panics \/ m.panics
                THEN /\ panic' = Panic(IF r.panics THEN r.msg ELSE m.msg, r.chars, 0)
                     /\ lex' = [lex EXCEPT !.chars = r.chars, !.stopped = r.stopped]
                ELSE /\ lex' = [lex EXCEPT !.chars = r.chars, !.stopped = r.stopped,
                                          !.peeked = IF peek THEN Some(r.item) ELSE None,
                                          !.end_error = m.end_error,
                                          !.res = Append(@, Unwrap(m.ret))]
                     /\ UNCHANGED panic
    /\ UNCHANGED <<physVars, slabVars, fsVars, irqVars, haltVars, modVars, pollVars, spans, pageVars,
                   lockVars, bigVars, sysVars, orderVars>>

LexerStep ==
    \/ \E source \in Sources : RawLexerNew(source)
    \/ \E peek \in BOOLEAN : LexerCall(peek)

SpecLexer == LexInit /\ [][LexerStep]_vars

\* str::len of the text
RECURSIVE ByteLen(_)
ByteLen(text) == IF text = <<>> THEN 0 ELSE Utf8Len(Head(text)) + ByteLen(Tail(text))

\* the span of the token is the bytes of its text in the source
CoversItsText(source, token) ==
    /\ token.span.end - token.span.start = ByteLen(token.inner)
    /\ \E k \in 1..Len(source) :
          /\ ByteOffset(source, k) = token.span.start
          /\ k + Len(token.inner) - 1 <= Len(source)
          /\ SubSeq(source, k, k + Len(token.inner) - 1) = token.inner

\* C36: for every UTF-8 source, with letters outside ASCII and with input after a
\* character no token starts with, lexing never panics, and the span of every identifier
\* token covers exactly the bytes of the identifier.
C36_LexerNeverPanics ==
    /\ Running
    /\ \A i \in 1..Len(lex.res) :
          (lex.res[i].ok /\ lex.res[i].token.kind \in { "Ident", "Keyword" })
              => CoversItsText(lex.source, lex.res[i].token)

-----------------------------------------------------------------------------
(* GlobalAlloc for GAlloc, kernel/src/mem/virt.rs lines 377-401: the choice between the *)
(* slabs and the big heap.  The big heap counts in KiB, a layout sent to it is rounded  *)
(* up to whole KiB.                                                                     *)

\* layouts on both sides of the 4096-byte limit
RouteLayouts ==
    { [size |-> 1, align |-> 1], [size |-> 4096, align |-> 8], [size |-> 4097, align |-> 8] }

KiBLayout(layout) ==
    [size |-> (layout.size + 1023) \div 1024, align |-> (layout.align + 1023) \div 1024]

\* alloc with the limit compared by < instead of <=
M_GlobalAlloc_LimitExclusive(layout) ==
    /\ big.req = None
    /\ IF NextPowerOfTwo(layout.size) < 4096
       THEN Alloc(layout)
       ELSE AllocateBig(KiBLayout(layout))

\* GlobalAlloc::alloc
GlobalAlloc(layout) ==
    /\ big.req = None
    /\ IF NextPowerOfTwo(layout.size) <= 4096
       THEN Alloc(layout)
       ELSE AllocateBig(KiBLayout(layout))

\* what is live in the heap, with the layout it was asked with
HeapLive == heapLive \cup { [size |-> b.size * 1024, align |-> 8, ptr |-> b.ptr] : b \in big.used }

\* GlobalAlloc::dealloc with the pointer and the layout of a live allocation
GlobalDealloc(a) ==
    /\ big.req = None
    /\ IF NextPowerOfTwo(a.size) <= 4096
       THEN GDealloc(a)
       ELSE DeallocateBig([ptr |-> a.ptr, size |-> KiBLayout(a).size])

\* KAlloc::new: the eight slabs and the big heap with its first block
RouteInit ==
    /\ regions = PFANew(SlabTable).regions
    /\ allocators = PFANew(SlabTable).allocators
    /\ phase = "run"
    /\ live = EmptyBag
    /\ vframes = EmptyBag
    /\ lastOp = NoOp
    /\ panic = NoPanic
    /\ slabs = KAllocNew
    /\ heapLive = {}
    /\ heapUsed = {}
    /\ big = KAllocNewBig(600)
    /\ FsIdle /\ IrqIdle
    /\ HaltIdle /\ ModIdle /\ PollIdle /\ LexIdle /\ PageIdle /\ LockIdle
    /\ SysIdle /\ OrderIdle

RouteNext ==
    \/ \E layout \in RouteLayouts : GlobalAlloc(layout)
    \/ AllocateBigStep
    \/ \E a \in HeapLive : GlobalDealloc(a)

SpecRoute == RouteInit /\ [][RouteNext]_vars

\* a live allocation of the slabs is of at most 4096 bytes and lies in an element of the
\* slab of max(32, next_power_of_two(size)) bytes
SlabServed ==
    \A a \in heapLive :
        /\ a.size <= 4096
        /\ HoldersOf(a.ptr) # {}
        /\ \A e \in HoldersOf(a.ptr) : SlabSize(e[1]) = Max({ 32, NextPowerOfTwo(a.size) })

\* a live allocation of the big heap is of more than 4096 bytes
BigServed == \A b \in big.used : b.size * 1024 > 4096

\* alloc goes to the slabs exactly for the layouts of at most 4096 bytes, and dealloc
\* with the same layout finds the allocation where alloc put it
RoutedBySize ==
    /\ lastOp'.op = "alloc" => Unwrap(lastOp'.arg) <= 4096 /\ big' = big
    /\ lastOp'.op = "allocate_big" => Unwrap(lastOp'.arg).size * 1024 > 4096 /\ slabs' = slabs
    /\ lastOp'.op = "dealloc" =>
            /\ lastOp'.ret = "ok" /\ big' = big
            /\ \E a \in heapLive : heapLive' = heapLive \ { a } /\ a.size = Unwrap(lastOp'.arg)
    /\ lastOp'.op = "deallocate_big" =>
            /\ slabs' = slabs /\ heapLive' = heapLive
            /\ \E b \in big.used : big'.used = big.used \ { b } /\ b.ptr = Unwrap(lastOp'.arg)

\* C37: GAlloc::alloc serves a layout of at most 4096 bytes from the slab of
\* max(32, next_power_of_two(size)) bytes and a larger one from the big heap, and
\* dealloc with the same layout goes to the same slab or to the big heap.
C37_AllocRoutedBySize ==
    /\ [](SlabServed /\ BigServed)
    /\ [][RoutedBySize]_vars

\* a 1-byte, a 4096-byte and a 4097-byte allocation are live, and one was just freed
C37_Witness ==
    /\ \E a \in heapLive : a.size = 1
    /\ \E a \in heapLive : a.size = 4096
    /\ big.used # {}
    /\ lastOp.op \in { "dealloc", "deallocate_big" }

-----------------------------------------------------------------------------
(* Log::print, kernel/src/log.rs lines 23-26, called while the locks of the writers may *)
(* be held: an exception taken inside a writer finds the writer's lock held, and its    *)
(* handler prints.                                                                      *)

MaxPrints == 3

\* Log::print with the locks ls held: SerialPrinter::print(args)? and then
\* FramePrinter::print_default_static(args)
LogPrint(ls) ==
    LET se == SerialPrint(ls)
        fp == PrintDefaultStatic(se.locks)
    IN  IF se.blocked THEN [locks |-> se.locks, blocked |-> TRUE, put |-> {}]
        ELSE IF ~se.ok THEN [locks |-> se.locks, blocked |-> FALSE, put |-> {}]
        ELSE [locks |-> fp.locks, blocked |-> fp.blocked,
              put |-> { "serial" } \cup (IF fp.ok THEN { "framebuffer" } ELSE {})]

PrintUnchanged ==
    UNCHANGED <<physVars, panic, slabVars, fsVars, irqVars, modVars, pollVars, lexVars, pageVars,
                bigVars, sysVars, orderVars, HAS_PANICKED, HAS_PANICKED_AGAIN, entries, taken,
                preempted>>

\* an exception is taken inside a writer that holds the lock l
ExceptionInWriter(l) ==
    /\ l \in { "SERIAL", "FRAMEBUFFER" }
    /\ l \notin locks
    /\ locks' = locks \cup { l }
    /\ UNCHANGED printed
    /\ PrintUnchanged

\* the handler returns and the writer releases its lock
WriterResumes(l) ==
    /\ l \in locks
    /\ locks' = locks \ { l }
    /\ UNCHANGED printed
    /\ PrintUnchanged

\* print!, println!: Log::print
PrintMacro ==
    /\ Len(printed) < MaxPrints
    /\ \A i \in 1..Len(printed) : ~printed[i].blocked
    /\ LET r == LogPrint(locks)
       IN  /\ locks' = r.locks
           /\ printed' = Append(printed, [by |-> 0, held |-> locks, put |-> r.put,
                                          blocked |-> r.blocked])
    /\ PrintUnchanged

PrintNext ==
    \/ \E l \in PrintLocks : ExceptionInWriter(l)
    \/ \E l \in PrintLocks : WriterResumes(l)
    \/ PrintMacro

SpecPrint == PanicInit /\ [][PrintNext]_vars

\* C38: Log::print never blocks: the writers take their lock with try_lock inside a
\* section with interrupts off, and the message is dropped when the lock is held.
C38_LogPrintNeverBlocks ==
    \A i \in 1..Len(printed) :
        /\ ~printed[i].blocked
        /\ "serial" \in printed[i].put <=> "SERIAL" \notin printed[i].held
        /\ "framebuffer" \in printed[i].put <=> printed[i].held \cap PrintLocks = {}

\* a print with SERIAL held was dropped and a print with FRAMEBUFFER held reached the
\* serial port only
C38_Witness ==
    /\ \E i \in 1..Len(printed) : "SERIAL" \in printed[i].held /\ printed[i].put = {}
    /\ \E i \in 1..Len(printed) : printed[i].held = { "FRAMEBUFFER" } /\ printed[i].put = { "serial" }

-----------------------------------------------------------------------------
(* lib::init, kernel/src/lib.rs lines 29-44, with the steps of mem::init, and main up *)
(* to its "Initialization complete!".  order lists what has been set up and every     *)
(* frame taken and page mapped, in the order of the events.                           *)

\* lib::init with mem::init before the interrupts are set up
M_LibInitSteps_MemBeforeInterrupts ==
    << "log", "initramfs", "descriptors", "phys", "mapper", "heap_check", "heap", "mem_check",
       "interrupts", "syscalls", "modules" >>

\* mem::init that sets up the heap before the mapper
M_LibInitSteps_HeapBeforeMapper ==
    << "log", "initramfs", "descriptors", "interrupts", "phys", "heap", "mapper", "heap_check",
       "mem_check", "syscalls", "modules" >>

\* the calls of lib::init in program order; mem::init is its five steps: PHYS_ALLOCATOR,
\* VIRT_MAPPER, the assertions on the level-4 table, VIRT_ALLOCATOR.init(), the assertion
\* on free()
LibInitSteps ==
    << "log", "initramfs", "descriptors", "interrupts", "phys", "mapper", "heap_check", "heap",
       "mem_check", "syscalls", "modules" >>

\* the steps that can panic: expect("Ramdisk missing!!!"), the assertions of mem::init,
\* palloc! in KAlloc::new
StepPanics ==
    [ initramfs |-> "Ramdisk missing!!!", heap_check |-> "Level 4 entry present in Kernel Heap!!!",
      heap |-> "Physical OOM!!!", mem_check |-> "Not enough physical memory" ]

\* what a step that did not panic adds to order: KAlloc::new maps the first block of the
\* big heap, frame by frame, before the heap exists; the assertions set nothing up
StepEvents(step) ==
    CASE step = "heap" -> << "frame", "page", "heap" >>
      [] step \in { "heap_check", "mem_check" } -> << >>
      [] OTHER -> << step >>

BootOrderInit ==
    /\ KERNEL_MODULES \in { Selected(Declared, on) : on \in SUBSET { "ps2", "sata" } }
    /\ boot = [pc |-> "lib_init", index |-> 0, count |-> 0, ret |-> None]
    /\ initLog = <<>> /\ extra = <<>> /\ lateInit = <<>>
    /\ order = <<>>
    /\ regions = <<>> /\ allocators = <<>> /\ phase = "boot"
    /\ live = EmptyBag /\ vframes = EmptyBag /\ lastOp = NoOp
    /\ panic = NoPanic
    /\ SlabIdle /\ FsIdle /\ IrqIdle /\ HaltIdle /\ PollIdle /\ LexIdle /\ PageIdle /\ LockIdle
    /\ BigIdle /\ SysIdle

\* lib::init: its next call returns, or panics
LibInitStep ==
    /\ Running /\ boot.pc = "lib_init"
    /\ boot.index < Len(LibInitSteps)
    /\ LET step == LibInitSteps[boot.index + 1]
       IN  \E ok \in BOOLEAN :
              /\ ~ok => step \in DOMAIN StepPanics
              /\ IF ok
                 THEN /\ order' = order \o StepEvents(step)
                      /\ boot' = IF step = "modules"
                                 THEN [boot EXCEPT !.pc = "modules_init", !.index = 0]
                                 ELSE [boot EXCEPT !.index = @ + 1]
                      /\ UNCHANGED panic
                 ELSE /\ panic' = Panic(StepPanics[step], boot.index, 0)
                      /\ UNCHANGED <<order, boot>>
    /\ UNCHANGED <<KERNEL_MODULES, initLog, extra, lateInit>>
    /\ UNCHANGED <<physVars, slabVars, fsVars, irqVars, haltVars, pollVars, lexVars, pageVars, lockVars,
                   bigVars, sysVars>>

\* a timer interrupt during the boot, once interrupts::init has enabled them: tick_step
BootTimerIrq ==
    /\ Running
    /\ \E i \in 1..Len(order) : order[i] = "interrupts"
    /\ ticks < MaxTicks
    /\ ticks' = ticks + 1
    /\ UNCHANGED <<timeVars, enabled, pic, eoi>>
    /\ UNCHANGED <<physVars, panic, slabVars, fsVars, haltVars, modVars, pollVars, lexVars, pageVars,
                   lockVars, bigVars, sysVars, orderVars>>

BootOrderNext ==
    \/ LibInitStep
    \/ BootTimerIrq
    \/ ModulesInitLoop
    \/ ModulesInitReturn
    \/ InitializationComplete

SpecOrder == BootOrderInit /\ [][BootOrderNext]_vars

\* the subsystems in the order of the claim
InitOrder ==
    << "log", "initramfs", "descriptors", "interrupts", "phys", "mapper", "heap", "syscalls",
       "modules" >>

IsSubsystem(e) == e \notin { "frame", "page" }

\* what has been set up so far is the first subsystems of InitOrder, each once
SetUpInOrder ==
    LET done == SelectSeq(order, IsSubsystem)
    IN  Len(done) <= Len(InitOrder) /\ done = SubSeq(InitOrder, 1, Len(done))

\* a frame is taken and a page is mapped only with the frame allocator and the mapper
\* installed
NoFrameBeforeAllocators ==
    \A i \in 1..Len(order) :
        order[i] \in { "frame", "page" } =>
            /\ \E j \in 1..(i - 1) : order[j] = "phys"
            /\ \E j \in 1..(i - 1) : order[j] = "mapper"

\* modules::init runs after everything else, and "Initialization complete!" is logged
\* after it has returned
CompleteAfterModules ==
    /\ boot.pc \in { "modules_init", "initialized", "complete" } =>
            SelectSeq(order, IsSubsystem) = InitOrder
    /\ initLog # <<>> => boot.pc \in { "modules_init", "initialized", "complete" }
    /\ boot.pc = "complete" => IsSome(boot.ret) /\ Len(initLog) = Len(KERNEL_MODULES)

\* C39: the boot initialises in strict order, each step once: logging, initramfs, GDT and
\* TSS, IDT with PIC, PIT and interrupts on, the physical allocator, the virtual mapper
\* and the kernel heap, the SYSCALL registers, the modules; no frame is allocated and no
\* page is mapped before the allocator and the mapper are installed, and "Initialization
\* complete!" is logged only after the module init has returned.
C39_BootInitOrder == SetUpInOrder /\ NoFrameBeforeAllocators /\ CompleteAfterModules

\* the boot is complete, both modules initialised, with timer interrupts on the way
C39_Witness ==
    /\ boot.pc = "complete" /\ Len(initLog) = 2 /\ ticks > 0
    /\ SelectSeq(order, IsSubsystem) = InitOrder

====
